---- MODULE Spec2Model ----
(***************************************************************************)
(* Model of the asr-hub audio preprocessing pipeline:                      *)
(*   src/src/utils/audio.py                 PCM codec, resampler           *)
(*   src/src/preprocessors/base.py          AudioPreprocessor              *)
(*   src/src/preprocessors/noise_reduction.py                              *)
(*                                NoiseReductionProcessor, AudioNormalizer *)
(*   src/src/core/pipeline.py               AudioPipeline                  *)
(*                                                                         *)
(* Conventions.                                                            *)
(*  - A byte buffer is a sequence of 0..255.                               *)
(*  - A numpy array is a record [ndim, cols, data]: ndim = 1 with data a   *)
(*    sequence of numbers, or ndim = 2 with data a sequence of rows of     *)
(*    cols numbers each.                                                   *)
(*  - float64 values that are not whole numbers are carried in fixed point *)
(*    with three decimals (the soft mask) or as exact quotients that are   *)
(*    truncated where the code casts to int16.                             *)
(*  - A Python call returns Ok(v) or Raise(chain); an exception is the     *)
(*    sequence of its layers, innermost first: raising a new exception     *)
(*    inside an except block chains the caught one (__context__).          *)
(*  - strength and target_volume are carried in tenths (5 is 0.5).         *)
(***************************************************************************)
EXTENDS Integers, Sequences, FiniteSets, TLC

VARIABLES
    stages,      \* stage objects constructed so far, in construction order
    ctor,        \* the constructor call just made: [state, config, err]
    pipeline,    \* the AudioPipeline object: [built, processors]
    outcome,     \* what the last AudioPipeline.process call did
    calls,       \* the processor.process invocations of that call, in order
    stream,      \* the input chunks of a process_streaming iteration
    gens,        \* the async generators, stage k at k and the pipeline's at n+1:
                 \* [pc, got, put] with the chunks received and yielded so far
    ctl,         \* the frame that runs: 0 source, k stage k, n+1 pipeline, n+2 consumer
    signal,      \* what the running frame was handed: [kind, chunk / err]
    srcRead,     \* number of chunks read from the input stream
    delivered,   \* chunks handed to the consumer, in order
    streamEnd,   \* how the iteration ended for the consumer
    requests,    \* number of __anext__ calls made by the consumer
    libcall,     \* a direct call of a function of audio.py or of a stage method:
                 \* [fn, its arguments, ret]
    registered,  \* AudioPipelineManager.registered_processors: name -> object
    registrations, \* the processors register_processor was called with, in
                 \* call order
    created,     \* what the last create_pipeline call did
    heap,        \* the stage objects that exist, by object id: their fields
    lists,       \* the Python list objects that exist, by id: the ids they hold
    pipes,       \* the AudioPipeline objects that exist: [processors, built]
    refs,        \* registered_processors as references: name -> object id
    served,      \* what the last call on one of the pipelines did
    frames,      \* the calls in progress on one pipeline, by caller: the call's
                 \* arguments, its position and what it has returned so far
    cells,       \* storage of the calls' local variables, by cell
    eng          \* one iteration of an engine's transcribe_streaming: the engine,
                 \* the source stream, the generator's position and locals, the
                 \* transcribe calls made, the results yielded, how it ended

vars == <<stages, ctor, pipeline, outcome, calls, stream, gens, ctl,
          signal, srcRead, delivered, streamEnd, requests, libcall, registered, registrations,
          created, heap, lists, pipes, refs, served, frames, cells, eng>>

----------------------------------------------------------------------------
(* Bounds of the model *)

MaxStages == 2
MaxSamples == 2
MaxChunks == 2

(* Python's None for an absent optional int argument *)
None == -1

----------------------------------------------------------------------------
(* Python call results and exception chaining *)

Ok(v) == [ok |-> TRUE, val |-> v]

Raise(chain) == [ok |-> FALSE, err |-> chain]

NewError(type, by) == <<[type |-> type, by |-> by]>>

\* raise type(f"...{str(e)}") inside "except Exception as e"
Wrap(chain, type, by) == Append(chain, [type |-> type, by |-> by])

\* the statements after a call that may raise: run only if it returned
Then(r, rest(_)) == IF r.ok THEN rest(r.val) ELSE r

\* try: r  except Exception as e: raise type(f"...{str(e)}")
Catch(r, type, by) == IF r.ok THEN r ELSE Raise(Wrap(r.err, type, by))

\* x or d
PyOr(x, d) == IF x = None \/ x = 0 THEN d ELSE x

TruncDiv(a, b) == IF a >= 0 THEN a \div b ELSE -((-a) \div b)

Min(a, b) == IF a <= b THEN a ELSE b

Max(a, b) == IF a >= b THEN a ELSE b

RECURSIVE SumSeq(_)
SumSeq(s) == IF s = <<>> THEN 0 ELSE Head(s) + SumSeq(Tail(s))

RECURSIVE Flatten(_)
Flatten(rows) == IF rows = <<>> THEN <<>> ELSE Head(rows) \o Flatten(Tail(rows))

----------------------------------------------------------------------------
(* numpy arrays *)

Arr1(data) == [ndim |-> 1, cols |-> 1, dtype |-> "int16", data |-> data]

Arr2(rows, c) == [ndim |-> 2, cols |-> c, dtype |-> "int16", data |-> rows]

\* a 1-D float64 array; its values are carried in thousandths
FloatArr1(milli) == [ndim |-> 1, cols |-> 1, dtype |-> "float64", data |-> milli]

\* value of a little-endian int16
Int16OfBytes(lo, hi) ==
    LET u == lo + 256 * hi IN IF u >= 32768 THEN u - 65536 ELSE u

\* astype(np.int16) of a whole number: wraps modulo 2^16
WrapInt16(v) ==
    LET u == v % 65536 IN IF u >= 32768 THEN u - 65536 ELSE u

BytesOfInt16(v) == LET u == v % 65536 IN <<u % 256, u \div 256>>

\* an IEEE-754 binary32 read from four little-endian bytes: sign, biased
\* exponent and fraction field
Float32OfBytes(b0, b1, b2, b3) ==
    [sign |-> b3 \div 128,
     exponent |-> (b3 % 128) * 2 + b2 \div 128,
     fraction |-> (b2 % 128) * 65536 + b1 * 256 + b0]

\* faulty variant: the bytes are written most significant first
BytesOfFloat32_BigEndian(x) ==
    <<x.sign * 128 + x.exponent \div 2,
      (x.exponent % 2) * 128 + x.fraction \div 65536,
      (x.fraction \div 256) % 256,
      x.fraction % 256>>

\* tobytes() of one float32
BytesOfFloat32(x) ==
    <<x.fraction % 256,
      (x.fraction \div 256) % 256,
      (x.exponent % 2) * 128 + x.fraction \div 65536,
      x.sign * 128 + x.exponent \div 2>>

\* np.abs on an int16 array: the result is int16 again
AbsInt16(v) == WrapInt16(IF v < 0 THEN -v ELSE v)

----------------------------------------------------------------------------
(* src/src/utils/audio.py *)

\* faulty variant: a trailing odd byte is dropped instead of refused
frombuffer_Truncating(audio_bytes) ==
    Ok([i \in 1..(Len(audio_bytes) \div 2) |->
          Int16OfBytes(audio_bytes[2 * i - 1], audio_bytes[2 * i])])

\* np.frombuffer(audio_bytes, dtype=np.int16)
frombuffer(audio_bytes) ==
    IF Len(audio_bytes) % 2 # 0
    THEN Raise(NewError("ValueError", "np.frombuffer"))
    ELSE Ok([i \in 1..(Len(audio_bytes) \div 2) |->
                Int16OfBytes(audio_bytes[2 * i - 1], audio_bytes[2 * i])])

\* np.frombuffer(audio_bytes, dtype=np.float32)
frombuffer_float32(audio_bytes) ==
    IF Len(audio_bytes) % 4 # 0
    THEN Raise(NewError("ValueError", "np.frombuffer"))
    ELSE Ok([i \in 1..(Len(audio_bytes) \div 4) |->
                Float32OfBytes(audio_bytes[4 * i - 3], audio_bytes[4 * i - 2],
                               audio_bytes[4 * i - 1], audio_bytes[4 * i])])

\* lines 27-32: the flat array of the requested dtype
FlatOfBytes(audio_bytes, dtype) ==
    IF dtype = "int16" THEN frombuffer(audio_bytes)
    ELSE IF dtype = "float32" THEN frombuffer_float32(audio_bytes)
    ELSE Raise(NewError("InvalidAudioFormatError", "bytes_to_numpy: dtype"))

\* number of rows of audio_array[:-(len % channels)].reshape(-1, channels)
FrameCount(n, channels) == n \div channels

\* faulty variant: the samples are laid out channel by channel
ReshapeIndex_Planar(r, c, rows, channels) == (c - 1) * rows + r

\* position in the flat array of row r, column c of reshape(-1, channels)
ReshapeIndex(r, c, rows, channels) == (r - 1) * channels + c

\* audio_array.reshape(-1, channels) after the truncation of lines 35-37
Reshape(flat, channels) ==
    Arr2([r \in 1..FrameCount(Len(flat), channels) |->
            [c \in 1..channels |->
                flat[ReshapeIndex(r, c, FrameCount(Len(flat), channels), channels)]]],
         channels)

\* bytes_to_numpy(audio_bytes, sample_rate, channels, dtype): the array alone
bytes_to_numpy_as(audio_bytes, sample_rate, channels, dtype) ==
    Catch(Then(FlatOfBytes(audio_bytes, dtype),
               LAMBDA flat : Ok([(IF channels > 1 THEN Reshape(flat, channels)
                                  ELSE Arr1(flat)) EXCEPT !.dtype = dtype])),
          "InvalidAudioFormatError", "bytes_to_numpy")

\* bytes_to_numpy with the default dtype = 'int16', as every caller in the
\* repository uses it
bytes_to_numpy(audio_bytes, sample_rate, channels) ==
    bytes_to_numpy_as(audio_bytes, sample_rate, channels, "int16")

\* astype(np.int16) of one element: a float is truncated towards zero
AsInt16(dtype, x) ==
    IF dtype = "float64" THEN WrapInt16(TruncDiv(x, 1000)) ELSE WrapInt16(x)

\* bytes of one element after astype(dtype); a float32 array is only ever
\* encoded as float32 (astype copies the bits)
ElementBytes(from, dtype, x) ==
    IF dtype = "float32" THEN BytesOfFloat32(x) ELSE BytesOfInt16(AsInt16(from, x))

\* numpy_to_bytes(audio_array, dtype): astype(dtype).tobytes(), row by row
numpy_to_bytes_as(audio_array, dtype) ==
    IF dtype \notin {"int16", "float32"}
    THEN Raise(Wrap(NewError("InvalidAudioFormatError", "numpy_to_bytes: dtype"),
                    "InvalidAudioFormatError", "numpy_to_bytes"))
    ELSE Ok(Flatten([i \in 1..Len(audio_array.data) |->
              IF audio_array.ndim = 2
              THEN Flatten([c \in 1..audio_array.cols |->
                      ElementBytes(audio_array.dtype, dtype, audio_array.data[i][c])])
              ELSE ElementBytes(audio_array.dtype, dtype, audio_array.data[i])]))

\* numpy_to_bytes with the default dtype = 'int16'
numpy_to_bytes(audio_array) == numpy_to_bytes_as(audio_array, "int16")

\* np.mean(audio_array, axis=1).astype(audio_array.dtype)
convert_to_mono(audio_array) ==
    IF audio_array.ndim = 1 THEN audio_array
    ELSE Arr1([r \in 1..Len(audio_array.data) |->
                 TruncDiv(SumSeq(audio_array.data[r]), audio_array.cols)])

\* np.column_stack([audio_array] * n) of a 1-D array
column_stack(audio_array, n) ==
    [ndim |-> 2, cols |-> n, dtype |-> audio_array.dtype, data |->
         [r \in 1..Len(audio_array.data) |-> [c \in 1..n |-> audio_array.data[r]]]]

\* element j of np.interp(new_indices, old_indices, column).astype(int16), with
\* old_indices = linspace(0, L-1, L) and new_indices = linspace(0, L-1, M)
Interp(column, M, j) ==
    IF M = 1 \/ Len(column) = 1 THEN column[1]
    ELSE LET num == (j - 1) * (Len(column) - 1)
             i == num \div (M - 1)
             r == num % (M - 1)
         IN IF r = 0 THEN column[i + 1]
            ELSE TruncDiv(column[i + 1] * (M - 1)
                            + (column[i + 2] - column[i + 1]) * r, M - 1)

\* faulty variant: the length is rounded to the nearest whole number
NewLength_Round(L, original_rate, target_rate) ==
    (2 * L * target_rate + original_rate) \div (2 * original_rate)

\* int(len(audio_array) * (target_rate / original_rate))
NewLength(L, original_rate, target_rate) == (L * target_rate) \div original_rate

Column(audio_array, c) == [r \in 1..Len(audio_array.data) |-> audio_array.data[r][c]]

_resample_audio(audio_array, original_rate, target_rate) ==
    IF original_rate = target_rate THEN Ok(audio_array)
    ELSE IF Len(audio_array.data) = 0
         THEN \* np.interp: "array of sample points is empty"
              Raise(NewError("ValueError", "np.interp"))
         ELSE Ok([audio_array EXCEPT !.data =
                [j \in 1..NewLength(Len(audio_array.data), original_rate, target_rate) |->
                   IF audio_array.ndim = 2
                   THEN [c \in 1..audio_array.cols |->
                           Interp(Column(audio_array, c),
                                  NewLength(Len(audio_array.data), original_rate,
                                            target_rate), j)]
                   ELSE Interp(audio_array.data,
                               NewLength(Len(audio_array.data), original_rate,
                                         target_rate), j)]])

\* the channel conversion of normalize_audio
ConvertChannels(audio_array, original_channels, target_channels) ==
    IF original_channels > 1 /\ target_channels = 1
    THEN convert_to_mono(audio_array)
    ELSE IF original_channels = 1 /\ target_channels > 1
         THEN column_stack(audio_array, target_channels)
         ELSE audio_array

normalize_audio(audio_bytes, original_sample_rate, original_channels, target_sample_rate, target_channels) ==
    Catch(Then(bytes_to_numpy(audio_bytes, original_sample_rate, original_channels),
               LAMBDA audio_array :
                 Then(_resample_audio(ConvertChannels(audio_array, original_channels,
                                                      target_channels),
                                      original_sample_rate, target_sample_rate),
                      LAMBDA resampled : numpy_to_bytes(resampled))),
          "AudioProcessingError", "normalize_audio")

----------------------------------------------------------------------------
(* src/src/preprocessors/noise_reduction.py: NoiseReductionProcessor *)

NoiseReductionObject(config) ==
    [name |-> "noise_reduction", enabled |-> config.enabled,
     strength |-> config.strength, sample_rate |-> config.sample_rate]

\* faulty variant: the sample rate is not validated
NoiseReductionProcessor_init_NoRateCheck(config) ==
    IF ~(0 <= config.strength /\ config.strength <= 10)
    THEN Raise(NewError("AudioProcessingError", "NoiseReductionProcessor._initialize"))
    ELSE Ok(NoiseReductionObject(config))

\* faulty variant: the validation raises ConfigurationError
NoiseReductionProcessor_init_ConfigurationError(config) ==
    IF ~(0 <= config.strength /\ config.strength <= 10) \/ config.sample_rate <= 0
    THEN Raise(NewError("ConfigurationError", "NoiseReductionProcessor._initialize"))
    ELSE Ok(NoiseReductionObject(config))

\* __init__ and _initialize: the object, or the exception of the validation
NoiseReductionProcessor_init(config) ==
    IF ~(0 <= config.strength /\ config.strength <= 10)
    THEN Raise(NewError("AudioProcessingError", "NoiseReductionProcessor._initialize"))
    ELSE IF config.sample_rate <= 0
         THEN Raise(NewError("AudioProcessingError",
                             "NoiseReductionProcessor._initialize"))
         ELSE Ok(NoiseReductionObject(config))

\* faulty variant: the sigmoid without the np.clip of line 136
SigmoidClipped_NoClip(tenths) ==
    LET table == <<7, 11, 18, 29, 47, 76, 119, 182, 268, 377, 500, 622, 731,
                   817, 880, 924, 952, 970, 982, 989, 993, 995, 997, 998, 999>>
    IN IF tenths < 0 THEN 0
       ELSE IF tenths >= 84 THEN 1000
       ELSE IF tenths >= Len(table) THEN 999
       ELSE table[tenths + 1]

\* clip(1 / (1 + exp(-5 * (ratio - 1))), 0.1, 1.0) in thousandths, for a ratio
\* given in tenths (rounded down); from 8.4 on the float64 result is exactly 1.0
SigmoidClipped(tenths) ==
    LET table == <<100, 100, 100, 100, 100, 100, 119, 182, 268, 377, 500, 622, 731,
                   817, 880, 924, 952, 970, 982, 989, 993, 995, 997, 998, 999>>
    IN IF tenths < 0 THEN 100
       ELSE IF tenths >= 84 THEN 1000
       ELSE IF tenths >= Len(table) THEN 999
       ELSE table[tenths + 1]

\* x / (n / den + 1e-8) in tenths, for n > 0 and den > 0
RatioTenthsPos(x, n, den) ==
    IF x < 0 THEN -1
    ELSE IF x * den >= 9 * n THEN 84
    ELSE (x * den * 10) \div n

\* energy / (threshold + 1e-8) in tenths, threshold = num / den with den > 0
RatioTenths(e, num, den) ==
    IF num = 0 THEN (IF e > 0 THEN 84 ELSE IF e < 0 THEN -1 ELSE 0)
    ELSE IF num < 0 THEN RatioTenthsPos(-e, -num, den)
    ELSE RatioTenthsPos(e, num, den)

\* the mask value of one sample, in thousandths
_create_soft_mask(e, threshold) ==
    SigmoidClipped(RatioTenths(e, threshold.num, threshold.den))

\* max(3, int(self.sample_rate * 0.001))
WindowSize(self) == Max(3, self.sample_rate \div 1000)

\* np.pad(audio_array, w, mode='edge')
EdgePad(a, w) == [i \in 1..(Len(a) + 2 * w) |-> a[Min(Max(i - w, 1), Len(a))]]

\* length of np.convolve(padded_audio, kernel, mode='valid')
ConvolveLength(n, window_size) == n - window_size + 1

\* np.convolve(padded_audio, np.ones(window_size) / window_size, mode='valid'):
\* the means of the windows; values in thousandths
ConvolveValid(padded, window_size) ==
    [i \in 1..ConvolveLength(Len(padded), window_size) |->
        TruncDiv(SumSeq(SubSeq(padded, i, i + window_size - 1)), window_size)]

\* smoothed[:len(audio_array)]
SliceTo(a, n) == SubSeq(a, 1, Min(n, Len(a)))

\* faulty variant: the convolution is returned without the cut to the input length
_apply_smoothing_NoCut(self, milli) ==
    IF Len(milli) <= WindowSize(self) THEN milli
    ELSE ConvolveValid(EdgePad(milli, WindowSize(self) \div 2), WindowSize(self))

_apply_smoothing(self, milli) ==
    IF Len(milli) <= WindowSize(self) THEN milli
    ELSE SliceTo(ConvolveValid(EdgePad(milli, WindowSize(self) \div 2),
                               WindowSize(self)),
                 Len(milli))

\* threshold = noise_level * (1 + strength), as a quotient
Threshold(self, energy) ==
    IF Min(Len(energy) \div 10, self.sample_rate \div 2) > 0
    THEN [num |-> SumSeq(SubSeq(energy, 1,
                         Min(Len(energy) \div 10, self.sample_rate \div 2)))
                    * (10 + self.strength),
          den |-> Min(Len(energy) \div 10, self.sample_rate \div 2) * 10]
    ELSE [num |-> SumSeq(energy) * (10 + self.strength),
          den |-> Max(Len(energy), 1) * 100]

\* audio_array * mask, in thousandths
ApplyMask(samples, energy, threshold) ==
    [i \in 1..Len(samples) |-> samples[i] * _create_soft_mask(energy[i], threshold)]

_apply_noise_reduction(self, audio_array) ==
    LET energy == [i \in 1..Len(audio_array.data) |-> AbsInt16(audio_array.data[i])]
    IN FloatArr1(_apply_smoothing(self,
           ApplyMask(audio_array.data, energy, Threshold(self, energy))))

\* lines 66-78: down to mono, denoise, copy the result to every channel
ReduceArray(self, audio_array, channels) ==
    IF audio_array.ndim > 1 /\ channels > 1
    THEN column_stack(_apply_noise_reduction(self, convert_to_mono(audio_array)),
                      channels)
    ELSE _apply_noise_reduction(self, convert_to_mono(audio_array))

\* lines 58-81: the body of the try block of process
ReduceTry(self, audio_bytes, original_sample_rate, original_channels) ==
    Then(bytes_to_numpy(audio_bytes,
                        PyOr(original_sample_rate, self.sample_rate),
                        PyOr(original_channels, 1)),
         LAMBDA audio_array :
           numpy_to_bytes(ReduceArray(self, audio_array,
                                      PyOr(original_channels, 1))))

\* a failed call replaced by the return of a default
OrElse(r, default) == IF r.ok THEN r ELSE Ok(default)

\* faulty variant: when the try block fails the input is returned
NoiseReductionProcessor_reduce_ReturnInput(self, audio_bytes, original_sample_rate, original_channels) ==
    OrElse(ReduceTry(self, audio_bytes, original_sample_rate, original_channels),
           audio_bytes)

\* the try block of process and its except clause
NoiseReductionProcessor_reduce(self, audio_bytes, original_sample_rate, original_channels) ==
    Catch(ReduceTry(self, audio_bytes, original_sample_rate, original_channels),
          "AudioProcessingError", "NoiseReductionProcessor.process")

\* faulty variant: the enabled flag is not looked at
NoiseReductionProcessor_process_IgnoreEnabled(self, audio_bytes, original_sample_rate, original_channels) ==
    NoiseReductionProcessor_reduce(self, audio_bytes, original_sample_rate,
                                   original_channels)

\* faulty variant: without both hints the input is returned as it came
NoiseReductionProcessor_process_IdentityWithoutHints(self, audio_bytes, original_sample_rate, original_channels) ==
    IF ~self.enabled \/ (original_sample_rate = None /\ original_channels = None)
    THEN Ok(audio_bytes)
    ELSE NoiseReductionProcessor_reduce(self, audio_bytes, original_sample_rate,
                                        original_channels)

NoiseReductionProcessor_process(self, audio_bytes, original_sample_rate, original_channels) ==
    IF ~self.enabled THEN Ok(audio_bytes)
    ELSE NoiseReductionProcessor_reduce(self, audio_bytes, original_sample_rate,
                                        original_channels)

----------------------------------------------------------------------------
(* src/src/preprocessors/noise_reduction.py: AudioNormalizer *)

NormalizerObject(config) ==
    [name |-> "audio_normalizer",
     target_sample_rate |-> config.target_sample_rate,
     target_channels |-> config.target_channels,
     normalize_volume |-> config.normalize_volume,
     target_volume |-> config.target_volume]

AudioNormalizer_init(config) ==
    IF config.target_sample_rate <= 0
    THEN Raise(NewError("AudioProcessingError", "AudioNormalizer._initialize"))
    ELSE IF config.target_channels \notin {1, 2}
         THEN Raise(NewError("AudioProcessingError", "AudioNormalizer._initialize"))
         ELSE IF ~(0 <= config.target_volume /\ config.target_volume <= 10)
              THEN Raise(NewError("AudioProcessingError",
                                  "AudioNormalizer._initialize"))
              ELSE Ok(NormalizerObject(config))

\* np.max(np.abs(audio_array))
MaxAbs(flat) ==
    IF flat = <<>> THEN Raise(NewError("ValueError", "np.max"))
    ELSE Ok(CHOOSE m \in {AbsInt16(flat[i]) : i \in 1..Len(flat)} :
                \A i \in 1..Len(flat) : AbsInt16(flat[i]) <= m)

\* |v| * 32767 * target_volume / (10 * current_max), rounded down
ScaleMagnitude(a, d, target_volume) ==
    (a \div d) * target_volume + ((a % d) * target_volume) \div d

\* int16 of clip(v * (target_volume * 32767 / current_max), -32768, 32767)
ScaleSample(v, target_volume, current_max) ==
    IF current_max <= 0 THEN v
    ELSE IF v < 0
         THEN Max(-ScaleMagnitude((-v) * 32767, 10 * current_max, target_volume),
                  -32768)
         ELSE Min(ScaleMagnitude(v * 32767, 10 * current_max, target_volume), 32767)

ScaleArray(audio_array, target_volume, current_max) ==
    [audio_array EXCEPT !.data =
        [r \in 1..Len(audio_array.data) |->
            IF audio_array.ndim = 2
            THEN [c \in 1..audio_array.cols |->
                    ScaleSample(audio_array.data[r][c], target_volume, current_max)]
            ELSE ScaleSample(audio_array.data[r], target_volume, current_max)]]

FlatData(audio_array) ==
    IF audio_array.ndim = 2 THEN Flatten(audio_array.data) ELSE audio_array.data

_normalize_volume(self, audio_bytes) ==
    Catch(Then(bytes_to_numpy(audio_bytes, self.target_sample_rate,
                              self.target_channels),
               LAMBDA audio_array :
                 Then(MaxAbs(FlatData(audio_array)),
                      LAMBDA current_max :
                        numpy_to_bytes(ScaleArray(audio_array, self.target_volume,
                                                  current_max)))),
          "AudioProcessingError", "AudioNormalizer._normalize_volume")

\* faulty variant: the stage lets the helper's exception through unchanged
NormalizerExcept_Reraise(err) == err

\* except Exception as e: raise AudioProcessingError(f"...{str(e)}")
NormalizerExcept(err) == Wrap(err, "AudioProcessingError", "AudioNormalizer.process")

NormalizerCatch(r) == IF r.ok THEN r ELSE Raise(NormalizerExcept(r.err))

\* lines 217-239: the path of process with both hints present
NormalizeWithHints(self, audio_bytes, original_sample_rate, original_channels) ==
    NormalizerCatch(
      Then(IF \/ original_sample_rate # self.target_sample_rate
              \/ original_channels # self.target_channels
           THEN normalize_audio(audio_bytes, original_sample_rate,
                                original_channels, self.target_sample_rate,
                                self.target_channels)
           ELSE Ok(audio_bytes),
           LAMBDA normalized_bytes :
             IF self.normalize_volume
             THEN _normalize_volume(self, normalized_bytes)
             ELSE Ok(normalized_bytes)))

\* faulty variant: an absent hint is replaced by a default and the format is
\* converted
AudioNormalizer_process_DefaultHints(self, audio_bytes, original_sample_rate, original_channels) ==
    NormalizeWithHints(self, audio_bytes, PyOr(original_sample_rate, 16000),
                       PyOr(original_channels, 1))

AudioNormalizer_process(self, audio_bytes, original_sample_rate, original_channels) ==
    IF original_sample_rate = None \/ original_channels = None
    THEN IF self.normalize_volume
         THEN NormalizerCatch(_normalize_volume(self, audio_bytes))
         ELSE Ok(audio_bytes)
    ELSE NormalizeWithHints(self, audio_bytes, original_sample_rate,
                            original_channels)

----------------------------------------------------------------------------
(* Inputs of the model *)

SampleVals == {0, 3, -300}

SeqsUpTo(S, n) == UNION {[1..k -> S] : k \in 0..n}

EncodeSamples(samples) == numpy_to_bytes(Arr1(samples)).val

\* well-formed int16 buffers, and the same with one trailing byte
Buffers ==
    LET whole == {EncodeSamples(s) : s \in SeqsUpTo(SampleVals, MaxSamples)}
    IN whole \cup {Append(b, 7) : b \in whole}

RateVals == {8000, 16000}

ChannelVals == {1, 2}

\* **kwargs of a process call; None stands for a keyword that is not passed
Kwargs == [original_sample_rate : RateVals \cup {None},
           original_channels : ChannelVals \cup {None}]

NoKwargs == [original_sample_rate |-> None, original_channels |-> None]

\* configurations handed to the constructors, valid and invalid
NoiseReductionConfigs ==
    [enabled : BOOLEAN, strength : {-1, 0, 10, 11}, sample_rate : {0, 16000}]

NormalizerConfigs ==
    [target_sample_rate : {0, 8000}, target_channels : {1, 2, 3},
     normalize_volume : BOOLEAN, target_volume : {8, 15}]

----------------------------------------------------------------------------
(* src/src/preprocessors/base.py and src/src/core/pipeline.py *)

\* AudioPreprocessor.supports_streaming; no stage of the repository overrides it
supports_streaming(self) == FALSE

\* processor.process(audio_bytes, **kwargs): dispatch on the object's class
processor_process(self, audio_bytes, kwargs) ==
    IF self.name = "noise_reduction"
    THEN NoiseReductionProcessor_process(self, audio_bytes,
             kwargs.original_sample_rate, kwargs.original_channels)
    ELSE AudioNormalizer_process(self, audio_bytes,
             kwargs.original_sample_rate, kwargs.original_channels)

\* faulty variant: every stage is fed the caller's buffer instead of the running result
StageCall_CallerBuffer(i, audio_bytes, result, kwargs) ==
    [index |-> i, audio_bytes |-> audio_bytes, kwargs |-> kwargs]

\* faulty variant: after the first stage the hints are dropped
StageCall_DropHints(i, audio_bytes, result, kwargs) ==
    [index |-> i, audio_bytes |-> result,
     kwargs |-> IF i = 1 THEN kwargs
                ELSE [original_sample_rate |-> None, original_channels |-> None]]

\* what stage i of AudioPipeline.process is called with: the running result and
\* the caller's **kwargs
StageCall(i, audio_bytes, result, kwargs) ==
    [index |-> i, audio_bytes |-> result, kwargs |-> kwargs]

\* the body of the try block: the loop over self.processors from stage i on;
\* yields the call's result and the invocations made
RECURSIVE RunProcessors(_, _, _, _, _, _)
LogEntry(call, r) ==
    [index |-> call.index, audio_bytes |-> call.audio_bytes, kwargs |-> call.kwargs,
     ret |-> r]

AfterStage(processors, i, audio_bytes, kwargs, log, call, r) ==
    IF ~r.ok
    THEN [ret |-> r, log |-> Append(log, LogEntry(call, r))]
    ELSE RunProcessors(processors, i + 1, audio_bytes, r.val, kwargs,
                       Append(log, LogEntry(call, r)))

CallStage(processors, i, audio_bytes, kwargs, log, call) ==
    AfterStage(processors, i, audio_bytes, kwargs, log, call,
               processor_process(processors[call.index], call.audio_bytes,
                                 call.kwargs))

RunProcessors(processors, i, audio_bytes, result, kwargs, log) ==
    IF i > Len(processors) THEN [ret |-> Ok(result), log |-> log]
    ELSE CallStage(processors, i, audio_bytes, kwargs, log,
                   StageCall(i, audio_bytes, result, kwargs))

\* faulty variant: the new exception does not carry the caught one
PipelineExcept_NoCause(err) == NewError("AudioProcessingError", "AudioPipeline.process")

\* except Exception as e: raise AudioProcessingError(f"...{str(e)}")
PipelineExcept(err) == Wrap(err, "AudioProcessingError", "AudioPipeline.process")

PipelineCatch(run) ==
    [ret |-> IF run.ret.ok THEN run.ret ELSE Raise(PipelineExcept(run.ret.err)),
     log |-> run.log]

AudioPipeline_process(self, audio_bytes, kwargs) ==
    PipelineCatch(RunProcessors(self.processors, 1, audio_bytes, audio_bytes,
                                kwargs, <<>>))

----------------------------------------------------------------------------
(* Construction and one-shot processing *)

NStages == Len(pipeline.processors)

NoCall == [state |-> "none"]

NoCtor == [state |-> "none"]

NoLibCall == [fn |-> "none"]

NoRegistered == [n \in {} |-> n]

NoCreated == [state |-> "none"]

\* no direct call made, an empty manager
NoServed == [op |-> "none"]

\* no object exists yet
ReuseIdle ==
    /\ heap = <<>> /\ lists = <<>> /\ pipes = <<>>
    /\ refs = NoRegistered /\ served = NoServed

reuseVars == <<heap, lists, pipes, refs, served>>

\* the two callers that share a pipeline
Callers == {1, 2}

NoFrame == [state |-> "idle"]

EmptyCell == [result |-> <<>>, pos |-> 0]

\* no call in progress
ConcIdle ==
    /\ frames = [t \in Callers |-> NoFrame]
    /\ cells = [c \in {0} \cup Callers |-> EmptyCell]

concVars == <<frames, cells>>

\* no transcribe_streaming generator exists
NoEngine == [pc |-> "none"]

\* the state the calls on shared objects run on
extVars == <<reuseVars, concVars, eng>>

LibIdle ==
    /\ libcall = NoLibCall /\ registered = NoRegistered /\ created = NoCreated
    /\ registrations = <<>>
    /\ ReuseIdle
    /\ ConcIdle
    /\ eng = NoEngine

libVars == <<libcall, registered, registrations, created, extVars>>

StreamIdle ==
    /\ stream = <<>> /\ gens = <<>> /\ ctl = 0 /\ signal = [kind |-> "none"]
    /\ srcRead = 0 /\ delivered = <<>> /\ streamEnd = "open" /\ requests = 0

Init ==
    /\ stages = <<>>
    /\ ctor = NoCtor
    /\ pipeline = [built |-> FALSE, processors |-> <<>>]
    /\ outcome = NoCall
    /\ calls = <<>>
    /\ StreamIdle
    /\ LibIdle

streamVars == <<stream, gens, ctl, signal, srcRead, delivered, streamEnd, requests,
                libVars>>

Construct(class, config, r) ==
    /\ ~pipeline.built
    /\ Len(stages) < MaxStages
    /\ stages' = IF r.ok THEN Append(stages, r.val) ELSE stages
    /\ ctor' = [state |-> "called", class |-> class, config |-> config,
                err |-> IF r.ok THEN <<>> ELSE r.err]
    /\ UNCHANGED <<pipeline, outcome, calls, streamVars>>

\* NoiseReductionProcessor(config)
ConstructNoiseReduction ==
    \E config \in NoiseReductionConfigs : 
        Construct("NoiseReductionProcessor", config, NoiseReductionProcessor_init(config))

\* AudioNormalizer(config)
ConstructNormalizer ==
    \E config \in NormalizerConfigs : 
        Construct("AudioNormalizer", config, AudioNormalizer_init(config))

\* AudioPipeline(processors)
NewPipeline ==
    /\ ~pipeline.built
    /\ pipeline' = [built |-> TRUE, processors |-> stages]
    /\ ctor' = NoCtor
    /\ UNCHANGED <<stages, outcome, calls, streamVars>>

\* pipeline.process(audio_bytes, **kwargs)
Finish(audio_bytes, kwargs, done) ==
    /\ outcome' = IF done.ret.ok
                  THEN [state |-> "returned", audio_bytes |-> audio_bytes,
                        kwargs |-> kwargs, bytes |-> done.ret.val]
                  ELSE [state |-> "raised", audio_bytes |-> audio_bytes,
                        kwargs |-> kwargs, err |-> done.ret.err]
    /\ calls' = done.log

Process ==
    /\ pipeline.built
    /\ outcome = NoCall
    /\ \E audio_bytes \in Buffers, kwargs \in Kwargs :
         Finish(audio_bytes, kwargs, AudioPipeline_process(pipeline, audio_bytes, kwargs))
    /\ UNCHANGED <<stages, ctor, pipeline, streamVars>>

\* the caller drops the result of the call
Discard ==
    /\ outcome # NoCall
    /\ outcome' = NoCall
    /\ calls' = <<>>
    /\ UNCHANGED <<stages, ctor, pipeline, streamVars>>

Next ==
    \/ ConstructNoiseReduction
    \/ ConstructNormalizer
    \/ NewPipeline
    \/ Process
    \/ Discard

Spec == Init /\ [][Next]_vars

----------------------------------------------------------------------------
(* Streaming: AudioPipeline.process_streaming over                          *)
(* AudioPreprocessor.process_streaming.  The generators form a chain; a     *)
(* frame runs when the frame above awaits its __anext__ ("next") or when    *)
(* the frame below hands it a chunk, its end ("stop") or an exception.      *)

\* the stage objects the constructors can return
StageObjects ==
    {NoiseReductionProcessor_init(c).val :
        c \in {x \in NoiseReductionConfigs : NoiseReductionProcessor_init(x).ok}}
    \cup {AudioNormalizer_init(c).val :
            c \in {x \in NormalizerConfigs : AudioNormalizer_init(x).ok}}

\* chunks of an input stream: one sample, two samples, one sample and a byte
StreamChunks == {EncodeSamples(<<3>>), EncodeSamples(<<3, -300>>), <<3, 0, 7>>}

PipelineFrame == NStages + 1

Consumer == NStages + 2

SigNext == [kind |-> "next"]

SigStop == [kind |-> "stop"]

SigChunk(c) == [kind |-> "chunk", chunk |-> c]

SigError(e) == [kind |-> "error", err |-> e]

NewGen == [pc |-> "new", got |-> <<>>, put |-> <<>>]

InitStream ==
    /\ pipeline \in [built : {TRUE}, processors : SeqsUpTo(StageObjects, MaxStages)]
    /\ stages = pipeline.processors
    /\ ctor = NoCtor
    /\ outcome = NoCall
    /\ calls = <<>>
    /\ stream \in SeqsUpTo(StreamChunks, MaxChunks)
    /\ gens = [k \in 1..PipelineFrame |-> NewGen]
    /\ ctl = Consumer
    /\ signal = [kind |-> "none"]
    /\ srcRead = 0
    /\ delivered = <<>>
    /\ streamEnd = "open"
    /\ requests = 0
    /\ LibIdle

oneShotVars == <<stages, ctor, pipeline, outcome, calls, libVars>>

\* faulty variant: the chain is built in the reverse order
StageOf_Reversed(k) == pipeline.processors[NStages + 1 - k]

\* the processor whose generator is frame k: the for loop of process_streaming
\* wraps the stream in construction order
StageOf(k) == pipeline.processors[k]

\* faulty variant: the chunk is passed on without calling process
StreamingFallback_Skip(self, chunk) == Ok(chunk)

\* faulty variant: the chunk is processed with format hints
StreamingFallback_WithHints(self, chunk) ==
    processor_process(self, chunk,
                      [original_sample_rate |-> 16000, original_channels |-> 2])

\* yield self.process(chunk): the one-shot process, on the chunk alone
StreamingFallback(self, chunk) == processor_process(self, chunk, NoKwargs)

\* faulty variant: the stage keeps the chunk and reads its upstream again
StageYield_ReadAhead(k, val) == [ctl |-> k - 1, signal |-> SigNext]

\* yield: the generator suspends and the awaiting frame above gets the value
StageYield(k, val) == [ctl |-> k + 1, signal |-> SigChunk(val)]

\* async for chunk in pipeline.process_streaming(audio_stream): one __anext__
ConsumerNext ==
    /\ ctl = Consumer
    /\ streamEnd = "open"
    /\ requests' = requests + 1
    /\ ctl' = PipelineFrame
    /\ signal' = SigNext
    /\ UNCHANGED <<oneShotVars, stream, gens, srcRead, delivered, streamEnd>>

\* the pipeline's generator starts (it builds the chain) or resumes after its
\* yield, and awaits the last stage, or the input stream if there is no stage
PipelineAwait ==
    /\ ctl = PipelineFrame
    /\ signal = SigNext
    /\ gens[PipelineFrame].pc \in {"new", "yielded"}
    /\ gens' = [gens EXCEPT ![PipelineFrame].pc = "awaiting"]
    /\ ctl' = NStages
    /\ UNCHANGED <<oneShotVars, stream, signal, srcRead, delivered, streamEnd, requests>>

\* yield chunk
PipelineYield ==
    /\ ctl = PipelineFrame
    /\ signal.kind = "chunk"
    /\ gens' = [gens EXCEPT ![PipelineFrame].pc = "yielded",
                            ![PipelineFrame].got = Append(@, signal.chunk),
                            ![PipelineFrame].put = Append(@, signal.chunk)]
    /\ delivered' = Append(delivered, signal.chunk)
    /\ ctl' = Consumer
    /\ UNCHANGED <<oneShotVars, stream, signal, srcRead, streamEnd, requests>>

\* the async for is exhausted: the generator returns
PipelineStop ==
    /\ ctl = PipelineFrame
    /\ signal.kind = "stop"
    /\ gens' = [gens EXCEPT ![PipelineFrame].pc = "done"]
    /\ streamEnd' = "stopped"
    /\ ctl' = Consumer
    /\ UNCHANGED <<oneShotVars, stream, signal, srcRead, delivered, requests>>

\* faulty variant: the failure ends the stream as if it were exhausted
StreamEndOnError_Stopped == "stopped"

\* the generator of process_streaming ends by raising
StreamEndOnError == "raised"

\* except Exception as e: raise AudioProcessingError(f"...{str(e)}")
StreamingExcept(err) ==
    Wrap(err, "AudioProcessingError", "AudioPipeline.process_streaming")

PipelineRaise ==
    /\ ctl = PipelineFrame
    /\ signal.kind = "error"
    /\ gens' = [gens EXCEPT ![PipelineFrame].pc = "raised"]
    /\ streamEnd' = StreamEndOnError
    /\ signal' = SigError(StreamingExcept(signal.err))
    /\ ctl' = Consumer
    /\ UNCHANGED <<oneShotVars, stream, srcRead, delivered, requests>>

\* a stage generator starts or resumes after its yield: with supports_streaming
\* it raises NotImplementedError, else it awaits its upstream
StageAwait(k) ==
    /\ ctl = k
    /\ signal = SigNext
    /\ gens[k].pc \in {"new", "yielded"}
    /\ IF gens[k].pc = "new" /\ supports_streaming(StageOf(k))
       THEN /\ gens' = [gens EXCEPT ![k].pc = "raised"]
            /\ ctl' = k + 1
            /\ signal' = SigError(NewError("NotImplementedError",
                                           "AudioPreprocessor.process_streaming"))
       ELSE /\ gens' = [gens EXCEPT ![k].pc = "awaiting"]
            /\ ctl' = k - 1
            /\ signal' = signal
    /\ UNCHANGED <<oneShotVars, stream, srcRead, delivered, streamEnd, requests>>

StageDone(k, chunk, r) ==
    IF r.ok
    THEN /\ gens' = [gens EXCEPT ![k].pc = "yielded",
                                 ![k].got = Append(@, chunk),
                                 ![k].put = Append(@, r.val)]
         /\ ctl' = StageYield(k, r.val).ctl
         /\ signal' = StageYield(k, r.val).signal
    ELSE /\ gens' = [gens EXCEPT ![k].pc = "raised", ![k].got = Append(@, chunk)]
         /\ ctl' = k + 1
         /\ signal' = SigError(r.err)

\* the body of the async for: yield self.process(chunk)
StageChunk(k) ==
    /\ ctl = k
    /\ signal.kind = "chunk"
    /\ StageDone(k, signal.chunk, StreamingFallback(StageOf(k), signal.chunk))
    /\ UNCHANGED <<oneShotVars, stream, srcRead, delivered, streamEnd, requests>>

\* the upstream is exhausted: the generator returns
StageStop(k) ==
    /\ ctl = k
    /\ signal.kind = "stop"
    /\ gens' = [gens EXCEPT ![k].pc = "done"]
    /\ ctl' = k + 1
    /\ UNCHANGED <<oneShotVars, stream, signal, srcRead, delivered, streamEnd, requests>>

\* an exception of the upstream leaves the generator as it came
StageRaise(k) ==
    /\ ctl = k
    /\ signal.kind = "error"
    /\ gens' = [gens EXCEPT ![k].pc = "raised"]
    /\ ctl' = k + 1
    /\ UNCHANGED <<oneShotVars, stream, signal, srcRead, delivered, streamEnd, requests>>

\* the input stream yields its next chunk
SourceYield ==
    /\ ctl = 0
    /\ signal = SigNext
    /\ srcRead < Len(stream)
    /\ srcRead' = srcRead + 1
    /\ signal' = SigChunk(stream[srcRead + 1])
    /\ ctl' = 1
    /\ UNCHANGED <<oneShotVars, stream, gens, delivered, streamEnd, requests>>

\* the input stream is exhausted
SourceStop ==
    /\ ctl = 0
    /\ signal = SigNext
    /\ srcRead = Len(stream)
    /\ signal' = SigStop
    /\ ctl' = 1
    /\ UNCHANGED <<oneShotVars, stream, gens, srcRead, delivered, streamEnd, requests>>

NextStream ==
    \/ ConsumerNext
    \/ PipelineAwait
    \/ PipelineYield
    \/ PipelineStop
    \/ PipelineRaise
    \/ \E k \in 1..NStages : StageAwait(k)
    \/ \E k \in 1..NStages : StageChunk(k)
    \/ \E k \in 1..NStages : StageStop(k)
    \/ \E k \in 1..NStages : StageRaise(k)
    \/ SourceYield
    \/ SourceStop

SpecStream == InitStream /\ [][NextStream]_vars

----------------------------------------------------------------------------
(* Claims about AudioPipeline.process *)

\* sn.process(...s2.process(s1.process(b, hints), hints)..., hints) by nested
\* application; an exception of an inner call is the value of the whole
RECURSIVE Nested(_, _, _, _)
Nested(processors, n, b, kwargs) ==
    IF n = 0 THEN Ok(b)
    ELSE Then(Nested(processors, n - 1, b, kwargs),
              LAMBDA x : processor_process(processors[n], x, kwargs))

\* C1: process returns the nested application of the stages in construction
\* order; every stage is invoked exactly once, stage i on the output of stage
\* i-1 and stage 1 on the caller's buffer; an empty pipeline returns the buffer.
C1_Chaining ==
    outcome.state = "returned" =>
        /\ Nested(pipeline.processors, NStages, outcome.audio_bytes, outcome.kwargs)
             = Ok(outcome.bytes)
        /\ Len(calls) = NStages
        /\ \A i \in 1..Len(calls) :
             /\ calls[i].index = i
             /\ calls[i].ret.ok
             /\ calls[i].audio_bytes = IF i = 1 THEN outcome.audio_bytes
                                       ELSE calls[i - 1].ret.val
        /\ NStages = 0 => outcome.bytes = outcome.audio_bytes

\* a two-stage call in which both stages changed the buffer and the order of
\* the stages matters
C1_Witness ==
    /\ outcome.state = "returned"
    /\ NStages = 2
    /\ calls[1].ret.val # calls[1].audio_bytes
    /\ calls[2].ret.val # calls[2].audio_bytes
    /\ Nested(<<pipeline.processors[2], pipeline.processors[1]>>, 2,
              outcome.audio_bytes, outcome.kwargs) # Ok(outcome.bytes)

\* C2: every stage invoked during one process call receives exactly the
\* keyword arguments the caller passed.
C2_SameHints ==
    outcome.state # "none" =>
        \A i \in 1..Len(calls) : calls[i].kwargs = outcome.kwargs

\* the second stage got the caller's hints although the first stage changed
\* the length (the format) of the buffer
C2_Witness ==
    /\ outcome.state = "returned"
    /\ Len(calls) = 2
    /\ outcome.kwargs.original_sample_rate # None
    /\ outcome.kwargs.original_channels # None
    /\ Len(calls[1].ret.val) # Len(calls[1].audio_bytes)
    /\ calls[2].kwargs = outcome.kwargs

PipelineLayer == [type |-> "AudioProcessingError", by |-> "AudioPipeline.process"]

\* C3: when stage k fails, stages 1..k-1 returned, no stage after k is
\* invoked, the call returns no bytes, and the exception raised is one
\* AudioProcessingError of the pipeline on top of the stage's exception.
C3_Abort ==
    outcome.state = "raised" =>
        /\ Len(calls) >= 1 /\ Len(calls) <= NStages
        /\ ~calls[Len(calls)].ret.ok
        /\ \A i \in 1..(Len(calls) - 1) : calls[i].ret.ok
        /\ \A i \in 1..Len(calls) : calls[i].index = i
        /\ "bytes" \notin DOMAIN outcome
        /\ outcome.err = Append(calls[Len(calls)].ret.err, PipelineLayer)
        /\ \A j \in 1..(Len(outcome.err) - 1) : outcome.err[j] # PipelineLayer

\* the first of two stages failed and the second was never invoked
C3_Witness ==
    /\ outcome.state = "raised"
    /\ NStages = 2
    /\ Len(calls) = 1

\* the layer of the codec's or the resampler's own exception, 0 if none
CodecLayer(chain) ==
    IF \E j \in 1..Len(chain) : chain[j].by \in {"bytes_to_numpy", "np.interp"}
    THEN CHOOSE j \in 1..Len(chain) : chain[j].by \in {"bytes_to_numpy", "np.interp"}
    ELSE 0

\* the layers wrapped around the codec's or resampler's exception
WrapsAbove(chain) == SubSeq(chain, CodecLayer(chain) + 1, Len(chain))

FailedStage == pipeline.processors[Len(calls)]

\* C7 as claimed: a codec or resampler error reaches the caller under at most
\* two layers, the stage's and the pipeline's.
C7_TwoLayers ==
    (outcome.state = "raised" /\ CodecLayer(outcome.err) > 0) =>
        Len(WrapsAbove(outcome.err)) <= 2

\* C7 as amended: under NoiseReductionProcessor the layers are the stage's and
\* the pipeline's; under AudioNormalizer the helper that called the codec or the
\* resampler (normalize_audio or _normalize_volume) adds one between: three.
C7_ThreeLayers ==
    (outcome.state = "raised" /\ CodecLayer(outcome.err) > 0) =>
        LET wraps == WrapsAbove(outcome.err)
            types == {wraps[j].type : j \in 1..Len(wraps)}
        IN /\ types = {"AudioProcessingError"}
           /\ IF FailedStage.name = "noise_reduction"
              THEN <<wraps[1].by, wraps[2].by>>
                      = <<"NoiseReductionProcessor.process", "AudioPipeline.process">>
                   /\ Len(wraps) = 2
              ELSE /\ Len(wraps) = 3
                   /\ wraps[1].by \in {"normalize_audio",
                                       "AudioNormalizer._normalize_volume"}
                   /\ <<wraps[2].by, wraps[3].by>>
                        = <<"AudioNormalizer.process", "AudioPipeline.process">>

\* a resampler error under three layers
C7_Witness ==
    /\ outcome.state = "raised"
    /\ outcome.err[1].by = "np.interp"
    /\ Len(WrapsAbove(outcome.err)) = 3

\* C8: a NoiseReductionProcessor with enabled = False returns its input,
\* whatever the buffer and the hints, and does not raise.
C8_DisabledIdentity ==
    \A i \in 1..Len(calls) :
        LET self == pipeline.processors[calls[i].index]
        IN (self.name = "noise_reduction" /\ ~self.enabled) =>
              calls[i].ret = Ok(calls[i].audio_bytes)

\* a disabled stage was given a buffer with a trailing odd byte, with both hints
C8_Witness ==
    \E i \in 1..Len(calls) :
        /\ pipeline.processors[calls[i].index].name = "noise_reduction"
        /\ ~pipeline.processors[calls[i].index].enabled
        /\ Len(calls[i].audio_bytes) % 2 = 1
        /\ calls[i].kwargs.original_sample_rate # None
        /\ calls[i].kwargs.original_channels # None
        /\ calls[i].ret.ok

----------------------------------------------------------------------------
(* Claims about construction *)

ValidNoiseReduction(c) ==
    /\ 0 <= c.strength /\ c.strength <= 10
    /\ c.sample_rate > 0

ValidNormalizer(c) ==
    /\ c.target_sample_rate > 0
    /\ c.target_channels \in {1, 2}
    /\ 0 <= c.target_volume /\ c.target_volume <= 10

ValidStage(self) ==
    IF self.name = "noise_reduction" THEN ValidNoiseReduction(self)
    ELSE ValidNormalizer(self)

ValidConfig(call) ==
    IF call.class = "NoiseReductionProcessor" THEN ValidNoiseReduction(call.config)
    ELSE ValidNormalizer(call.config)

NumpyRaisers == {"np.frombuffer", "np.interp", "np.max"}

C9_StateInv ==
    /\ ctor.state = "called" => (ctor.err = <<>> <=> ValidConfig(ctor))
    /\ \A i \in 1..Len(stages) : ValidStage(stages[i])
    /\ \A i \in 1..NStages : ValidStage(pipeline.processors[i])
    /\ \A i \in 1..Len(calls) :
         ~calls[i].ret.ok =>
            /\ calls[i].ret.err[1].by \in NumpyRaisers
            /\ \A j \in 1..Len(calls[i].ret.err) :
                 calls[i].ret.err[j].by \notin {"NoiseReductionProcessor._initialize",
                                                "AudioNormalizer._initialize"}

C9_CtorStep ==
    ctor'.state = "called" =>
        IF ValidConfig(ctor')
        THEN /\ Len(stages') = Len(stages) + 1
             /\ SubSeq(stages', 1, Len(stages)) = stages
             /\ \A f \in DOMAIN ctor'.config :
                  stages'[Len(stages')][f] = ctor'.config[f]
        ELSE stages' = stages

\* C9: a constructor fails exactly when a value is outside its range, and then
\* no stage object comes to exist; a valid configuration yields an object that
\* holds the configured values; every stage object holds values inside the
\* ranges; and an exception of process always starts in a numpy operation on
\* the data, never in the validation.
C9_ValidatedAtConstruction == [](C9_StateInv) /\ [][C9_CtorStep]_vars

\* a constructor call with sample_rate = 0 failed while a stage object exists
C9_Witness ==
    /\ ctor.state = "called"
    /\ ctor.class = "NoiseReductionProcessor"
    /\ ctor.config.sample_rate <= 0
    /\ ctor.config.strength = 10
    /\ ctor.err # <<>>
    /\ Len(stages) = 1

CtorFailed == ctor.state = "called" /\ ctor.err # <<>>

\* C10 as claimed: the exception of a failed construction is a ConfigurationError.
C10_ConfigurationError ==
    CtorFailed => ctor.err[Len(ctor.err)].type = "ConfigurationError"

\* C10 as amended: the exception of a failed construction is an
\* AudioProcessingError, the kind the stages also raise when process fails.
C10_AudioProcessingError ==
    /\ CtorFailed =>
          /\ Len(ctor.err) = 1
          /\ ctor.err[1].type = "AudioProcessingError"
    /\ \A i \in 1..Len(calls) :
          ~calls[i].ret.ok =>
             calls[i].ret.err[Len(calls[i].ret.err)].type = "AudioProcessingError"

\* a NoiseReductionProcessor constructor failed on strength = 1.1
C10_Witness ==
    /\ CtorFailed
    /\ ctor.class = "NoiseReductionProcessor"
    /\ ctor.config.strength > 10

----------------------------------------------------------------------------
(* Claims about process_streaming *)

\* what the frame below stage k has yielded so far
Upstream(k) == IF k = 1 THEN SubSeq(stream, 1, srcRead) ELSE gens[k - 1].put

\* C4: output i is input i taken through the stages in construction order;
\* stage k is handed chunk i as the finished output of stage k-1; no chunk
\* gives more than one output, and a stream that ends normally has given
\* exactly one output per input chunk, in the order of arrival.
C4_StreamingOrder ==
    /\ Len(delivered) <= srcRead /\ srcRead <= Len(stream)
    /\ \A i \in 1..Len(delivered) :
         Nested(pipeline.processors, NStages, stream[i], NoKwargs) = Ok(delivered[i])
    /\ \A k \in 1..NStages :
         /\ Len(gens[k].got) <= Len(Upstream(k))
         /\ gens[k].got = SubSeq(Upstream(k), 1, Len(gens[k].got))
         /\ Len(gens[k].put) <= Len(gens[k].got)
    /\ delivered = SubSeq(Upstream(PipelineFrame), 1, Len(delivered))
    /\ streamEnd = "stopped" => Len(delivered) = Len(stream)

\* a stream of two different chunks went through two stages that both changed
\* them, and ended normally
C4_Witness ==
    /\ streamEnd = "stopped"
    /\ NStages = 2
    /\ Len(stream) = 2 /\ stream[1] # stream[2]
    /\ Len(delivered) = 2
    /\ \A i \in 1..2 : /\ gens[1].put[i] # stream[i]
                       /\ delivered[i] # gens[1].put[i]

\* C5: at most one chunk is in flight: neither the input stream nor any stage
\* has been read more than once beyond the chunks delivered, every read of the
\* input stream answers a request of the consumer, and before the first
\* request nothing has run.
C5_PullDriven ==
    /\ srcRead <= Len(delivered) + 1
    /\ srcRead <= requests
    /\ \A k \in 1..NStages : Len(gens[k].got) <= Len(delivered) + 1
    /\ requests = 0 =>
          /\ srcRead = 0
          /\ \A k \in 1..PipelineFrame : gens[k].pc = "new"
    /\ ctl = Consumer => (streamEnd = "open" => srcRead = Len(delivered))

\* the consumer holds the first output of a two-chunk stream through two
\* stages and has not asked for the second: the second chunk is still unread
C5_Witness ==
    /\ ctl = Consumer
    /\ NStages = 2
    /\ Len(stream) = 2
    /\ Len(delivered) = 1
    /\ srcRead = 1
    /\ requests = 1

\* C6: a stage without streaming support yields, for each chunk it receives,
\* process(chunk) called with the chunk alone; its output stream is as long as
\* its input stream unless process raised on the last chunk it received.
C6_PerChunkFallback ==
    \A k \in 1..NStages :
        ~supports_streaming(StageOf(k)) =>
            /\ \A i \in 1..Len(gens[k].put) :
                 Ok(gens[k].put[i])
                    = processor_process(StageOf(k), gens[k].got[i], NoKwargs)
            /\ Len(gens[k].put) <= Len(gens[k].got)
            /\ Len(gens[k].got) <= Len(gens[k].put) + 1
            /\ Len(gens[k].got) > Len(gens[k].put) =>
                  /\ gens[k].pc = "raised"
                  /\ ~processor_process(StageOf(k), gens[k].got[Len(gens[k].got)],
                                        NoKwargs).ok
            /\ gens[k].pc = "done" =>
                  /\ Len(gens[k].put) = Len(Upstream(k))
                  /\ Len(Upstream(k)) = Len(stream)

\* a stage has finished a stream of two chunks and changed both
C6_Witness ==
    \E k \in 1..NStages :
        /\ gens[k].pc = "done"
        /\ Len(gens[k].put) = 2
        /\ \A i \in 1..2 : gens[k].put[i] # gens[k].got[i]

----------------------------------------------------------------------------
(* Direct calls of the codec, the resampler and the stage methods *)

MaxBytes == 16
MaxFrames == 5

\* byte i of a raw buffer
PatternByte(seed, i) == (seed + 37 * i) % 256

\* raw buffers of every length up to MaxBytes
CodecBuffers ==
    {[i \in 1..n |-> PatternByte(seed, i)] : n \in 0..MaxBytes, seed \in {0, 131}}

\* the supported dtypes and an unsupported one
DtypeVals == {"int16", "float32", "int8"}

CodecChannels == {1, 2, 3}

\* sample i of a signal: silence, or an alternating ramp
PatternSample(p, i) ==
    IF p = "zero" THEN 0 ELSE IF i % 2 = 1 THEN 100 * i ELSE -(100 * i)

\* signals of up to MaxFrames frames of three channels
PatternSeqs ==
    {[i \in 1..n |-> PatternSample(p, i)] : n \in 0..(3 * MaxFrames),
                                             p \in {"zero", "ramp"}}

\* every short signal over silence, a small value and the ends of the int16 range
ShortSeqs == SeqsUpTo({0, 100, -32768, 32767}, MaxSamples)

SampleBuffers == {EncodeSamples(x) : x \in PatternSeqs \cup ShortSeqs}

\* the signals that are resampled
ResampleSeqs == {y \in PatternSeqs : Len(y) = 0 \/ y[1] # 0}

ResampleRates == {8000, 12000, 16000}

LibKwargs == [original_sample_rate : {8000, 16000, None},
              original_channels : {1, 2, 3, None}]

\* the AudioNormalizer objects of the direct calls
Normalizers ==
    {AudioNormalizer_init(c).val :
        c \in [target_sample_rate : {8000, 16000}, target_channels : {1, 2},
               normalize_volume : BOOLEAN, target_volume : {0, 8, 10}]}

\* the NoiseReductionProcessor objects of the direct calls: smoothing windows
\* of 4, 5 and 16 samples
Reducers ==
    {NoiseReductionProcessor_init(c).val :
        c \in [enabled : BOOLEAN, strength : {0, 5, 10},
               sample_rate : {4000, 5000, 16000}]}

nonLibCallVars == <<stages, ctor, pipeline, outcome, calls, stream, gens, ctl, signal,
                    srcRead, delivered, streamEnd, requests, registered, created,
                    registrations, extVars>>

\* bytes_to_numpy(audio_bytes, 16000, channels, dtype)
Decode ==
    /\ libcall = NoLibCall
    /\ \E audio_bytes \in CodecBuffers, channels \in CodecChannels, dtype \in DtypeVals :
         libcall' = [fn |-> "bytes_to_numpy", audio_bytes |-> audio_bytes,
                     channels |-> channels, dtype |-> dtype,
                     ret |-> bytes_to_numpy_as(audio_bytes, 16000, channels, dtype)]
    /\ UNCHANGED nonLibCallVars

\* numpy_to_bytes(audio_array, dtype) on the array a decode returned
Encode ==
    /\ libcall.fn = "bytes_to_numpy"
    /\ libcall.ret.ok
    /\ libcall' = [fn |-> "numpy_to_bytes", audio_bytes |-> libcall.audio_bytes,
                   channels |-> libcall.channels, dtype |-> libcall.dtype,
                   audio_array |-> libcall.ret.val,
                   ret |-> numpy_to_bytes_as(libcall.ret.val, libcall.dtype)]
    /\ UNCHANGED nonLibCallVars

\* _resample_audio(audio_array, original_rate, target_rate) on an array as
\* bytes_to_numpy returns it
Resample ==
    /\ libcall = NoLibCall
    /\ \E x \in ResampleSeqs, channels \in CodecChannels,
          original_rate \in ResampleRates, target_rate \in ResampleRates :
         libcall' = [fn |-> "_resample_audio",
                     audio_array |-> bytes_to_numpy(EncodeSamples(x), original_rate,
                                                    channels).val,
                     original_rate |-> original_rate, target_rate |-> target_rate,
                     ret |-> _resample_audio(
                               bytes_to_numpy(EncodeSamples(x), original_rate,
                                              channels).val,
                               original_rate, target_rate)]
    /\ UNCHANGED nonLibCallVars

\* AudioNormalizer.process(audio_bytes, **kwargs)
Normalize ==
    /\ libcall = NoLibCall
    /\ \E self \in Normalizers, audio_bytes \in SampleBuffers, kwargs \in LibKwargs :
         libcall' = [fn |-> "AudioNormalizer.process", self |-> self,
                     audio_bytes |-> audio_bytes, kwargs |-> kwargs,
                     ret |-> AudioNormalizer_process(self, audio_bytes,
                               kwargs.original_sample_rate, kwargs.original_channels)]
    /\ UNCHANGED nonLibCallVars

\* AudioNormalizer._normalize_volume(audio_bytes)
Volume ==
    /\ libcall = NoLibCall
    /\ \E self \in Normalizers, audio_bytes \in SampleBuffers :
         libcall' = [fn |-> "AudioNormalizer._normalize_volume", self |-> self,
                     audio_bytes |-> audio_bytes,
                     ret |-> _normalize_volume(self, audio_bytes)]
    /\ UNCHANGED nonLibCallVars

\* NoiseReductionProcessor.process(audio_bytes, **kwargs), also on buffers with
\* a trailing odd byte
Reduce ==
    /\ libcall = NoLibCall
    /\ \E self \in Reducers, kwargs \in LibKwargs,
          audio_bytes \in SampleBuffers \cup {Append(b, 7) : b \in SampleBuffers} :
         libcall' = [fn |-> "NoiseReductionProcessor.process", self |-> self,
                     audio_bytes |-> audio_bytes, kwargs |-> kwargs,
                     ret |-> NoiseReductionProcessor_process(self, audio_bytes,
                               kwargs.original_sample_rate, kwargs.original_channels)]
    /\ UNCHANGED nonLibCallVars

\* energies: values np.abs returns for int16 samples (-32768 for -32768)
EnergyVals == {-32768, 0, 1, 50, 99, 100, 101, 150, 1000, 32767}

\* thresholds as quotients: zero, below one, one hundred, large, and a negative
\* one (the threshold of a signal whose noise estimate wrapped)
ThresholdVals ==
    {[num |-> n, den |-> d] : n \in {-300, 0, 1, 100, 12000}, d \in {1, 10}}

\* NoiseReductionProcessor._create_soft_mask(energy, threshold)
Mask ==
    /\ libcall = NoLibCall
    /\ \E energy \in SeqsUpTo(EnergyVals, MaxSamples), threshold \in ThresholdVals :
         libcall' = [fn |-> "_create_soft_mask", energy |-> energy,
                     threshold |-> threshold,
                     ret |-> [i \in 1..Len(energy) |->
                                _create_soft_mask(energy[i], threshold)]]
    /\ UNCHANGED nonLibCallVars

\* the caller drops the result
Forget ==
    /\ libcall # NoLibCall
    /\ libcall' = NoLibCall
    /\ UNCHANGED nonLibCallVars

NextAudio ==
    \/ Decode
    \/ Encode
    \/ Resample
    \/ Normalize
    \/ Volume
    \/ Reduce
    \/ Mask
    \/ Forget

SpecAudio == Init /\ [][NextAudio]_vars

----------------------------------------------------------------------------
(* Claims about the direct calls *)

\* the channel count a stage decodes with: "original_channels or 1"
ChannelsUsed(kwargs) == PyOr(kwargs.original_channels, 1)

\* number of int16 samples in a buffer of whole samples
SampleCount(audio_bytes) == Len(audio_bytes) \div 2

\* byte length of the whole frames of c channels in a buffer of int16 samples
WholeFrameBytes(audio_bytes, c) ==
    IF c > 1 THEN 2 * c * (SampleCount(audio_bytes) \div c)
    ELSE 2 * SampleCount(audio_bytes)

\* C11: an enabled NoiseReductionProcessor whose decode step fails (a buffer
\* that is not whole int16 samples) raises AudioProcessingError on top of the
\* decode error and returns nothing; every call that returns has processed
\* every whole frame of its input.
C11_FailureRaises ==
    (libcall.fn = "NoiseReductionProcessor.process" /\ libcall.self.enabled) =>
        IF Len(libcall.audio_bytes) % 2 = 1
        THEN /\ ~libcall.ret.ok
             /\ "val" \notin DOMAIN libcall.ret
             /\ libcall.ret.err[1] = [type |-> "ValueError", by |-> "np.frombuffer"]
             /\ libcall.ret.err[Len(libcall.ret.err)]
                  = [type |-> "AudioProcessingError",
                     by |-> "NoiseReductionProcessor.process"]
        ELSE /\ libcall.ret.ok
             /\ Len(libcall.ret.val)
                  = WholeFrameBytes(libcall.audio_bytes, ChannelsUsed(libcall.kwargs))

\* an enabled stage was given two samples and a trailing byte, with both hints
C11_Witness ==
    /\ libcall.fn = "NoiseReductionProcessor.process"
    /\ libcall.self.enabled
    /\ Len(libcall.audio_bytes) = 5
    /\ libcall.kwargs.original_sample_rate # None
    /\ libcall.kwargs.original_channels = 2
    /\ ~libcall.ret.ok

\* bytes of one sample of a supported dtype
SampleWidth(dtype) == IF dtype = "float32" THEN 4 ELSE 2

\* number of rows of the array a successful call returned
Rows(audio_array) == Len(audio_array.data)

\* number of channels of an array: the columns of a matrix, 1 for a vector
Cols(audio_array) == IF audio_array.ndim = 2 THEN audio_array.cols ELSE 1

\* a call of bytes_to_numpy with a dtype the function supports
DecodeCall ==
    libcall.fn = "bytes_to_numpy" /\ libcall.dtype \in {"int16", "float32"}

\* C12 as stated: decoding a buffer that is not a whole number of frames,
\* a trailing partial sample included, succeeds with floor(len / frame_size)
\* frames.
C12_AlwaysTruncates ==
    DecodeCall =>
        /\ libcall.ret.ok
        /\ Rows(libcall.ret.val)
             = Len(libcall.audio_bytes)
                 \div (libcall.channels * SampleWidth(libcall.dtype))

\* C12: a buffer of whole samples that is not a whole number of frames decodes
\* to floor(samples / channel_count) frames of channel_count channels, the
\* trailing samples dropped; a buffer with a trailing partial sample is refused
\* with InvalidAudioFormatError on top of np.frombuffer's ValueError.
C12_TruncatesWholeSamples ==
    DecodeCall =>
        IF Len(libcall.audio_bytes) % SampleWidth(libcall.dtype) = 0
        THEN /\ libcall.ret.ok
             /\ Rows(libcall.ret.val)
                  = (Len(libcall.audio_bytes) \div SampleWidth(libcall.dtype))
                      \div libcall.channels
             /\ Cols(libcall.ret.val) = libcall.channels
             /\ numpy_to_bytes_as(libcall.ret.val, libcall.dtype)
                  = Ok(SubSeq(libcall.audio_bytes, 1,
                              Rows(libcall.ret.val) * libcall.channels
                                * SampleWidth(libcall.dtype)))
        ELSE /\ ~libcall.ret.ok
             /\ libcall.ret.err[1] = [type |-> "ValueError", by |-> "np.frombuffer"]
             /\ libcall.ret.err[Len(libcall.ret.err)]
                  = [type |-> "InvalidAudioFormatError", by |-> "bytes_to_numpy"]

\* three int16 samples were decoded as two channels: one frame, one sample
\* dropped
C12_Witness ==
    /\ DecodeCall
    /\ libcall.dtype = "int16"
    /\ libcall.channels = 2
    /\ Len(libcall.audio_bytes) = 6
    /\ libcall.ret.ok
    /\ Rows(libcall.ret.val) = 1

\* C13: for int16 and float32, every channel count and every buffer whose
\* length is a whole number of frames, numpy_to_bytes of the array
\* bytes_to_numpy returned, with the same dtype, is the buffer byte for byte.
C13_RoundTrip ==
    (/\ libcall.fn = "numpy_to_bytes"
     /\ libcall.dtype \in {"int16", "float32"}
     /\ Len(libcall.audio_bytes)
          % (libcall.channels * SampleWidth(libcall.dtype)) = 0)
    => libcall.ret = Ok(libcall.audio_bytes)

\* two frames of two float32 channels went through decode and encode
C13_Witness ==
    /\ libcall.fn = "numpy_to_bytes"
    /\ libcall.dtype = "float32"
    /\ libcall.channels = 2
    /\ Len(libcall.audio_bytes) = 16
    /\ Rows(libcall.audio_array) = 2
    /\ libcall.audio_bytes[1] # libcall.audio_bytes[5]
    /\ libcall.ret.ok

\* a call of _resample_audio with two different rates
ResampleCall ==
    libcall.fn = "_resample_audio" /\ libcall.original_rate # libcall.target_rate

ConvertingCall ==
    /\ libcall.fn = "AudioNormalizer.process"
    /\ libcall.kwargs.original_sample_rate # None
    /\ libcall.kwargs.original_channels # None
    /\ \/ libcall.kwargs.original_sample_rate # libcall.self.target_sample_rate
       \/ libcall.kwargs.original_channels # libcall.self.target_channels

\* whole frames of c channels in a buffer of int16 samples
FramesIn(audio_bytes, c) == SampleCount(audio_bytes) \div c

\* C15 as stated, with the length law the resampler implements and for calls
\* whose input and output hold at least one frame: the output of a converting
\* call is NewLength(frames of the input) frames of exactly target_channels
\* channels, whatever the original channel count.
C15_TargetChannels ==
    (/\ ConvertingCall
     /\ NewLength(FramesIn(libcall.audio_bytes, libcall.kwargs.original_channels),
                  libcall.kwargs.original_sample_rate,
                  libcall.self.target_sample_rate) >= 1)
    => /\ libcall.ret.ok
       /\ Len(libcall.ret.val)
            = 2 * libcall.self.target_channels
                * NewLength(FramesIn(libcall.audio_bytes,
                                     libcall.kwargs.original_channels),
                            libcall.kwargs.original_sample_rate,
                            libcall.self.target_sample_rate)

\* a call of AudioNormalizer.process with at least one hint absent
HintlessCall ==
    /\ libcall.fn = "AudioNormalizer.process"
    /\ \/ libcall.kwargs.original_sample_rate = None
       \/ libcall.kwargs.original_channels = None

\* C16: when original_sample_rate or original_channels is absent,
\* AudioNormalizer.process converts no channels and resamples nothing: with
\* normalize_volume false it returns the input bytes, with normalize_volume
\* true its outcome is that of the volume step on the input (read with the
\* target channel count), which keeps every whole frame of the input.
C16_NoConversionWithoutHints ==
    HintlessCall =>
        IF libcall.self.normalize_volume
        THEN /\ libcall.ret
                  = NormalizerCatch(_normalize_volume(libcall.self,
                                                      libcall.audio_bytes))
             /\ libcall.ret.ok =>
                  Len(libcall.ret.val)
                    = WholeFrameBytes(libcall.audio_bytes,
                                      libcall.self.target_channels)
        ELSE libcall.ret = Ok(libcall.audio_bytes)

\* a mono normalizer at 8000 Hz was given four non-zero samples with the
\* channel hint 2 and no rate hint, and scaled them without changing their
\* number
C16_Witness ==
    /\ HintlessCall
    /\ libcall.kwargs.original_channels = 2
    /\ libcall.self.target_channels = 1
    /\ libcall.self.target_sample_rate = 8000
    /\ libcall.self.normalize_volume
    /\ Len(libcall.audio_bytes) = 8
    /\ libcall.ret.ok
    /\ Len(libcall.ret.val) = 8
    /\ libcall.ret.val # libcall.audio_bytes

\* |v| as a whole number, without the wrap of int16
Magnitude(v) == IF v < 0 THEN -v ELSE v

\* the int16 samples of a buffer of whole samples
SamplesOf(audio_bytes) == frombuffer(audio_bytes).val

\* the largest magnitude among the samples of a non-empty buffer
PeakOf(audio_bytes) ==
    CHOOSE m \in {Magnitude(SamplesOf(audio_bytes)[i]) : i \in 1..SampleCount(audio_bytes)} :
        \A i \in 1..SampleCount(audio_bytes) : Magnitude(SamplesOf(audio_bytes)[i]) <= m

\* a call of _normalize_volume on a buffer of whole frames of the target
\* channel count
VolumeCall ==
    /\ libcall.fn = "AudioNormalizer._normalize_volume"
    /\ Len(libcall.audio_bytes) % (2 * libcall.self.target_channels) = 0

\* C17 as stated: for every buffer with a non-zero sample, whatever its sample
\* values, the volume step returns a buffer of the same size whose peak
\* magnitude is target_volume x 32767 to within one unit.
C17_PeakAtTarget ==
    (/\ VolumeCall
     /\ \E i \in 1..SampleCount(libcall.audio_bytes) :
            SamplesOf(libcall.audio_bytes)[i] # 0)
    => /\ libcall.ret.ok
       /\ Len(libcall.ret.val) = Len(libcall.audio_bytes)
       /\ LET d == 10 * PeakOf(libcall.ret.val) - libcall.self.target_volume * 32767
          IN d <= 10 /\ -d <= 10

\* C18 as stated: for every valid configuration and every all-zero int16
\* buffer of any sample count, the volume step returns the buffer it was given
\* (all zero, same byte length) and raises nothing.
C18_ZeroStaysZero ==
    (/\ libcall.fn = "AudioNormalizer._normalize_volume"
     /\ \A i \in 1..Len(libcall.audio_bytes) : libcall.audio_bytes[i] = 0)
    => libcall.ret = Ok(libcall.audio_bytes)

\* an enabled NoiseReductionProcessor was given whole frames of the channel
\* count its hint names
WholeFrameReduceCall ==
    /\ libcall.fn = "NoiseReductionProcessor.process"
    /\ libcall.self.enabled
    /\ libcall.kwargs.original_channels # None
    /\ Len(libcall.audio_bytes) % (2 * libcall.kwargs.original_channels) = 0

\* every frame of an interleaved buffer of c channels holds c equal samples
ChannelsIdentical(audio_bytes, c) ==
    \A f \in 1..FramesIn(audio_bytes, c) : \A k \in 1..c :
        SamplesOf(audio_bytes)[(f - 1) * c + k] = SamplesOf(audio_bytes)[(f - 1) * c + 1]

\* C19: an enabled NoiseReductionProcessor given N >= 0 whole frames of C
\* channels with original_channels = C returns a buffer of the same byte
\* length, N frames of C channels, whether the smoothing window of its
\* sample_rate is odd or even, and for C > 1 the C samples of every output
\* frame are equal.
C19_ShapePreserved ==
    WholeFrameReduceCall =>
        /\ libcall.ret.ok
        /\ Len(libcall.ret.val) = Len(libcall.audio_bytes)
        /\ ChannelsIdentical(libcall.ret.val, libcall.kwargs.original_channels)

\* six non-zero stereo frames went through a processor whose smoothing window
\* is even (4 samples at 4000 Hz) and came back as six frames
C19_Witness ==
    /\ WholeFrameReduceCall
    /\ libcall.self.sample_rate = 4000
    /\ libcall.kwargs.original_channels = 2
    /\ Len(libcall.audio_bytes) = 24
    /\ SamplesOf(libcall.audio_bytes)[1] # 0
    /\ libcall.ret.ok
    /\ Len(libcall.ret.val) = 24

----------------------------------------------------------------------------
(* src/src/core/pipeline.py: AudioPipelineManager *)

\* faulty variant: a name that is registered already keeps its processor
register_processor_KeepFirst(registered_processors, processor) ==
    [n \in DOMAIN registered_processors \cup {processor.name} |->
        IF n \in DOMAIN registered_processors THEN registered_processors[n]
        ELSE processor]

\* self.registered_processors[processor.name] = processor
register_processor(registered_processors, processor) ==
    [n \in DOMAIN registered_processors \cup {processor.name} |->
        IF n = processor.name THEN processor ELSE registered_processors[n]]

\* faulty variant: an unknown name raises the NotFound subclass
get_processor_NotFoundError(registered_processors, name) ==
    IF name \notin DOMAIN registered_processors
    THEN Raise(NewError("PreprocessorNotFoundError",
                        "AudioPipelineManager.get_processor"))
    ELSE Ok(registered_processors[name])

get_processor(registered_processors, name) ==
    IF name \notin DOMAIN registered_processors
    THEN Raise(NewError("PreprocessorError", "AudioPipelineManager.get_processor"))
    ELSE Ok(registered_processors[name])

\* list(self.registered_processors.keys()): the keys, each once (the order
\* of the list is the dict's insertion order, which the model does not keep)
list_processors(registered_processors) ==
    CHOOSE l \in SeqsUpTo(DOMAIN registered_processors,
                          Cardinality(DOMAIN registered_processors)) :
        /\ Len(l) = Cardinality(DOMAIN registered_processors)
        /\ {l[i] : i \in 1..Len(l)} = DOMAIN registered_processors

\* faulty variant: a name counts as registered only while it is the only one
is_registered_OnlyName(registered_processors, name) ==
    DOMAIN registered_processors = {name}

\* name in self.registered_processors
is_registered(registered_processors, name) ==
    name \in DOMAIN registered_processors

\* the for loop of create_pipeline: the processors collected so far, or the
\* exception of the first lookup that fails
RECURSIVE CollectProcessors(_, _, _)
CollectProcessors(registered_processors, processor_names, processors) ==
    IF processor_names = <<>> THEN Ok(processors)
    ELSE Then(get_processor(registered_processors, Head(processor_names)),
              LAMBDA processor :
                CollectProcessors(registered_processors, Tail(processor_names),
                                  Append(processors, processor)))

\* AudioPipeline(processors)
AudioPipeline_init(processors) == [built |-> TRUE, processors |-> processors]

create_pipeline(registered_processors, processor_names) ==
    IF processor_names = <<>> THEN Ok(AudioPipeline_init(<<>>))
    ELSE Then(CollectProcessors(registered_processors, processor_names, <<>>),
              LAMBDA processors : Ok(AudioPipeline_init(processors)))

\* the names of the repository's two stages and one that no stage has
ManagerNames == {"noise_reduction", "audio_normalizer", "nonexistent"}

\* calls of register_processor that are followed
MaxRegistrations == 3

\* manager.register_processor(processor)
RegisterProcessor ==
    /\ Len(registrations) < MaxRegistrations
    /\ \E processor \in StageObjects :
         /\ registered' = register_processor(registered, processor)
         /\ registrations' = Append(registrations, processor)
    /\ created' = NoCreated
    /\ UNCHANGED <<stages, ctor, pipeline, outcome, calls, stream, gens, ctl, signal,
                   srcRead, delivered, streamEnd, requests, libcall, extVars>>

\* manager.create_pipeline(processor_names): nothing of the manager is assigned
CreatePipeline ==
    /\ \E processor_names \in SeqsUpTo(ManagerNames, MaxStages) :
         created' = [state |-> "called", processor_names |-> processor_names,
                     before |-> registered,
                     ret |-> create_pipeline(registered, processor_names)]
    /\ UNCHANGED <<stages, ctor, pipeline, outcome, calls, stream, gens, ctl, signal,
                   srcRead, delivered, streamEnd, requests, libcall, registered,
                   registrations, extVars>>

NextManager ==
    \/ RegisterProcessor
    \/ CreatePipeline

SpecManager == Init /\ [][NextManager]_vars

----------------------------------------------------------------------------
(* Claims about the manager *)

\* the last create_pipeline call named a processor that was not registered
UnknownNameCall ==
    /\ created.state = "called"
    /\ \E i \in 1..Len(created.processor_names) :
          created.processor_names[i] \notin DOMAIN created.before

\* C20 as stated: create_pipeline on a list with an unregistered name fails
\* with PreprocessorNotFoundError, returns no pipeline and leaves the
\* registered processors as they were.
C20_PreprocessorNotFoundError ==
    UnknownNameCall =>
        /\ ~created.ret.ok
        /\ "val" \notin DOMAIN created.ret
        /\ created.ret.err[1].type = "PreprocessorNotFoundError"
        /\ registered = created.before

\* C20: create_pipeline on a list with an unregistered name, wherever in the
\* list, fails with the PreprocessorError of get_processor (the base class, not
\* PreprocessorNotFoundError), unwrapped; no pipeline, not even one of the
\* processors found before the unknown name, is returned, and the registered
\* processors are as they were.
C20_PreprocessorError ==
    UnknownNameCall =>
        /\ created.ret
             = Raise(NewError("PreprocessorError",
                              "AudioPipelineManager.get_processor"))
        /\ "val" \notin DOMAIN created.ret
        /\ registered = created.before

\* with both stages registered, a list naming a registered stage and then an
\* unknown one was refused
C20_Witness ==
    /\ UnknownNameCall
    /\ DOMAIN created.before = {"noise_reduction", "audio_normalizer"}
    /\ created.processor_names = <<"noise_reduction", "nonexistent">>
    /\ ~created.ret.ok

----------------------------------------------------------------------------
(* Objects shared by reference: stages, the lists that hold them, pipelines   *)
(* and the manager that built them.  A stage object is known by its id in the *)
(* heap; a list and the manager's dict hold ids.                              *)

\* stage and pipeline objects that are ever constructed
MaxObjects == 4

\* stage objects as the constructors return them; the two normalizers have
\* the same name
ReuseStages ==
    {NoiseReductionProcessor_init(
         [enabled |-> TRUE, strength |-> 5, sample_rate |-> 16000]).val,
     AudioNormalizer_init(
         [target_sample_rate |-> 8000, target_channels |-> 1,
          normalize_volume |-> TRUE, target_volume |-> 8]).val,
     AudioNormalizer_init(
         [target_sample_rate |-> 16000, target_channels |-> 2,
          normalize_volume |-> FALSE, target_volume |-> 8]).val}

ReuseBuffers == {EncodeSamples(<<-300, 3, 3, 3>>), <<3, 0, 7>>}

\* input streams: two good chunks, and a good chunk before a malformed one
ReuseStreams ==
    {<<EncodeSamples(<<3, -300>>), EncodeSamples(<<-300>>)>>,
     <<EncodeSamples(<<3, -300>>), <<3, 0, 7>>>>}

\* lists of names without repetition
NameLists(names) ==
    {<<n>> : n \in names} \cup {q \in names \X names : q[1] # q[2]}

nonReuseVars == <<stages, ctor, pipeline, outcome, calls, stream, gens, ctl, signal,
                  srcRead, delivered, streamEnd, requests, libcall, registered, created,
                  registrations, concVars, eng>>

ReuseKwargs ==
    {NoKwargs, [original_sample_rate |-> 16000, original_channels |-> 2]}

\* faulty variant: registering under a name already taken overwrites the
\* object registered before instead of rebinding the name
RegisterEffect_InPlace(objects, registered_processors, id) ==
    IF objects[id].name \in DOMAIN registered_processors
    THEN [heap |-> [objects EXCEPT ![registered_processors[objects[id].name]] =
                        objects[id]],
          refs |-> registered_processors]
    ELSE [heap |-> objects,
          refs |-> [n \in DOMAIN registered_processors \cup {objects[id].name} |->
                      IF n = objects[id].name THEN id ELSE registered_processors[n]]]

\* self.registered_processors[processor.name] = processor: the name is bound
\* to the object, no object is written
RegisterEffect(objects, registered_processors, id) ==
    [heap |-> objects,
     refs |-> [n \in DOMAIN registered_processors \cup {objects[id].name} |->
                 IF n = objects[id].name THEN id ELSE registered_processors[n]]]

\* faulty variant: the manager keeps one list and hands it to every pipeline
CreateEffect_SharedList(listObjects, registered_processors, processor_names) ==
    IF listObjects = <<>>
    THEN [lists |-> <<[i \in 1..Len(processor_names) |->
                         registered_processors[processor_names[i]]]>>,
          list |-> 1]
    ELSE [lists |-> [listObjects EXCEPT ![1] =
                        [i \in 1..Len(processor_names) |->
                            registered_processors[processor_names[i]]]],
          list |-> 1]

\* processors = [] ... processors.append(processor) ... AudioPipeline(processors):
\* a list object of its own for every pipeline, holding the registered objects
CreateEffect(listObjects, registered_processors, processor_names) ==
    [lists |-> Append(listObjects,
                      [i \in 1..Len(processor_names) |->
                          registered_processors[processor_names[i]]]),
     list |-> Len(listObjects) + 1]

\* the stage objects a list holds, as they are now
StagesOf(objects, listObjects, list) ==
    [i \in 1..Len(listObjects[list]) |-> objects[listObjects[list][i]]]

\* pipeline p as its process method sees it now
PipelineNow(p) ==
    [built |-> TRUE, processors |-> StagesOf(heap, lists, pipes[p].processors)]

\* one chunk through the chain of generators: every stage's process on the
\* chunk alone, in construction order
RECURSIVE ChainChunk(_, _, _)
ChainChunk(processors, n, chunk) ==
    IF n = 0 THEN Ok(chunk)
    ELSE Then(ChainChunk(processors, n - 1, chunk),
              LAMBDA x : StreamingFallback(processors[n], x))

\* what a consumer of process_streaming gets: the chunks delivered, and how the
\* iteration ended
RECURSIVE StreamOutputs(_, _, _)
AfterChunk(processors, chunks, out, r) ==
    IF r.ok THEN StreamOutputs(processors, Tail(chunks), Append(out, r.val))
    ELSE [delivered |-> out, end |-> "raised"]

StreamOutputs(processors, chunks, out) ==
    IF chunks = <<>> THEN [delivered |-> out, end |-> "stopped"]
    ELSE AfterChunk(processors, chunks, out,
                    ChainChunk(processors, Len(processors), Head(chunks)))

\* NoiseReductionProcessor(config) or AudioNormalizer(config)
NewStage ==
    /\ Len(heap) + Len(pipes) < MaxObjects
    /\ \E obj \in ReuseStages \ {heap[i] : i \in 1..Len(heap)} :
         heap' = Append(heap, obj)
    /\ served' = NoServed
    /\ UNCHANGED <<lists, pipes, refs, nonReuseVars>>

\* manager.register_processor(processor)
RegisterByRef ==
    /\ \E id \in 1..Len(heap) :
         /\ heap' = RegisterEffect(heap, refs, id).heap
         /\ refs' = RegisterEffect(heap, refs, id).refs
    /\ served' = NoServed
    /\ UNCHANGED <<lists, pipes, nonReuseVars>>

\* manager.create_pipeline(processor_names) with registered names; the
\* pipeline's stages as they are at construction are kept in built
CreateByRef ==
    /\ Len(heap) + Len(pipes) < MaxObjects
    /\ \E processor_names \in NameLists(DOMAIN refs) :
         /\ lists' = CreateEffect(lists, refs, processor_names).lists
         /\ pipes' = Append(pipes,
                [processors |-> CreateEffect(lists, refs, processor_names).list,
                 built |-> [i \in 1..Len(processor_names) |->
                              heap[refs[processor_names[i]]]]])
    /\ served' = NoServed
    /\ UNCHANGED <<heap, refs, nonReuseVars>>

\* pipeline.process(audio_bytes, **kwargs) on one of the pipelines: no
\* attribute of the pipeline or of a stage is assigned
Serve ==
    /\ \E p \in 1..Len(pipes), audio_bytes \in ReuseBuffers, kwargs \in ReuseKwargs :
         served' = [op |-> "process", p |-> p, audio_bytes |-> audio_bytes,
                    kwargs |-> kwargs,
                    ret |-> AudioPipeline_process(PipelineNow(p), audio_bytes,
                                                  kwargs).ret]
    /\ UNCHANGED <<heap, lists, pipes, refs, nonReuseVars>>

\* a whole iteration of pipeline.process_streaming(audio_stream)
ServeStreaming ==
    /\ \E p \in 1..Len(pipes), chunks \in ReuseStreams :
         served' = [op |-> "process_streaming", p |-> p, chunks |-> chunks,
                    ret |-> StreamOutputs(PipelineNow(p).processors, chunks, <<>>)]
    /\ UNCHANGED <<heap, lists, pipes, refs, nonReuseVars>>

NextReuse ==
    \/ NewStage
    \/ RegisterByRef
    \/ CreateByRef
    \/ Serve
    \/ ServeStreaming

SpecReuse == Init /\ [][NextReuse]_vars

----------------------------------------------------------------------------
(* Claims about shared objects *)

\* pipeline p as it was when it was constructed
PipelineBuilt(p) == [built |-> TRUE, processors |-> pipes[p].built]

\* C21: no call made after a pipeline's construction (process and
\* process_streaming, returning or raising, register_processor and
\* create_pipeline on the manager that built it, the construction of further
\* stages) changes the pipeline's stage sequence or a field of one of its
\* stages, and every process or process_streaming call returns what the
\* pipeline as constructed returns for the same arguments.
C21_PipelineFrozen ==
    /\ \A p \in 1..Len(pipes) : PipelineNow(p).processors = pipes[p].built
    /\ served.op = "process" =>
         served.ret = AudioPipeline_process(PipelineBuilt(served.p),
                                            served.audio_bytes, served.kwargs).ret
    /\ served.op = "process_streaming" =>
         served.ret = StreamOutputs(pipes[served.p].built, served.chunks, <<>>)

\* the first pipeline holds a normalizer whose name has since been registered
\* again for another object, a second pipeline was created after it, and
\* process was then called on the first pipeline
C21_Witness ==
    /\ served.op = "process"
    /\ served.p = 1
    /\ Len(pipes) = 2
    /\ "audio_normalizer" \in DOMAIN refs
    /\ \E i \in 1..Len(lists[pipes[1].processors]) :
         /\ heap[lists[pipes[1].processors][i]].name = "audio_normalizer"
         /\ lists[pipes[1].processors][i] # refs["audio_normalizer"]

----------------------------------------------------------------------------
(* Two callers on one pipeline.  A call's local variables (result and the   *)
(* loop position of process, current_stream of process_streaming) live in a *)
(* cell; between two steps of one call the other call may run.  A stage's   *)
(* process is one step: it reads its arguments and the fields of self only. *)

\* faulty variant: the locals are kept in one place on the pipeline object
LocalCell_OnPipeline(t) == 0

\* the cell that holds the local variables of caller t's call: its own frame
LocalCell(t) == t

nonConcVars == <<stages, ctor, pipeline, outcome, calls, stream, gens, ctl, signal,
                 srcRead, delivered, streamEnd, requests, libcall, registered, created,
                 registrations, reuseVars, eng>>

InitConcurrent ==
    /\ pipeline \in [built : {TRUE}, processors : SeqsUpTo(ReuseStages, MaxStages)]
    /\ stages = pipeline.processors
    /\ ctor = NoCtor
    /\ outcome = NoCall
    /\ calls = <<>>
    /\ StreamIdle
    /\ LibIdle

\* line 34: result = audio_bytes
BeginProcess(t) ==
    /\ frames[t].state = "idle"
    /\ \E audio_bytes \in ReuseBuffers, kwargs \in ReuseKwargs :
         /\ frames' = [frames EXCEPT ![t] =
                         [state |-> "running", kind |-> "process",
                          input |-> audio_bytes, kwargs |-> kwargs, out |-> <<>>]]
         /\ cells' = [cells EXCEPT ![LocalCell(t)] =
                        [result |-> audio_bytes, pos |-> 0]]
    /\ UNCHANGED nonConcVars

\* lines 35-36 and 38-39: result = processor.process(result, **kwargs) for the
\* next processor, or the except clause
StageDoneFor(t, r) ==
    IF r.ok
    THEN /\ cells' = [cells EXCEPT ![LocalCell(t)] =
                        [result |-> r.val, pos |-> @.pos + 1]]
         /\ UNCHANGED frames
    ELSE /\ frames' = [frames EXCEPT ![t].state = "raised",
                                     ![t].out = PipelineExcept(r.err)]
         /\ UNCHANGED cells

StageStep(t) ==
    /\ frames[t].state = "running"
    /\ frames[t].kind = "process"
    /\ cells[LocalCell(t)].pos < NStages
    /\ StageDoneFor(t, processor_process(
                           pipeline.processors[cells[LocalCell(t)].pos + 1],
                           cells[LocalCell(t)].result, frames[t].kwargs))
    /\ UNCHANGED nonConcVars

\* line 37: return result
ReturnResult(t) ==
    /\ frames[t].state = "running"
    /\ frames[t].kind = "process"
    /\ cells[LocalCell(t)].pos >= NStages
    /\ frames' = [frames EXCEPT ![t].state = "returned",
                                ![t].out = cells[LocalCell(t)].result]
    /\ UNCHANGED <<cells, nonConcVars>>

\* lines 52-56: current_stream = audio_stream, wrapped by every processor
BeginStreaming(t) ==
    /\ frames[t].state = "idle"
    /\ \E chunks \in ReuseStreams :
         frames' = [frames EXCEPT ![t] =
                      [state |-> "running", kind |-> "process_streaming",
                       input |-> chunks, kwargs |-> NoKwargs, out |-> <<>>]]
    /\ cells' = [cells EXCEPT ![LocalCell(t)] = [result |-> <<>>, pos |-> 0]]
    /\ UNCHANGED nonConcVars

\* lines 59-60 and 62-63: the next chunk of current_stream is pulled through
\* the chain and yielded, or the except clause
ChunkDoneFor(t, r) ==
    IF r.ok
    THEN frames' = [frames EXCEPT ![t].out = Append(@, r.val)]
    ELSE frames' = [frames EXCEPT ![t].state = "raised"]

ChunkStep(t) ==
    /\ frames[t].state = "running"
    /\ frames[t].kind = "process_streaming"
    /\ cells[LocalCell(t)].pos < Len(frames[t].input)
    /\ ChunkDoneFor(t, ChainChunk(pipeline.processors, NStages,
                                  frames[t].input[cells[LocalCell(t)].pos + 1]))
    /\ cells' = [cells EXCEPT ![LocalCell(t)].pos = @ + 1]
    /\ UNCHANGED nonConcVars

\* current_stream is exhausted: the generator returns
StreamExhausted(t) ==
    /\ frames[t].state = "running"
    /\ frames[t].kind = "process_streaming"
    /\ cells[LocalCell(t)].pos >= Len(frames[t].input)
    /\ frames' = [frames EXCEPT ![t].state = "stopped"]
    /\ UNCHANGED <<cells, nonConcVars>>

NextConcurrent ==
    \/ \E t \in Callers : BeginProcess(t)
    \/ \E t \in Callers : StageStep(t)
    \/ \E t \in Callers : ReturnResult(t)
    \/ \E t \in Callers : BeginStreaming(t)
    \/ \E t \in Callers : ChunkStep(t)
    \/ \E t \in Callers : StreamExhausted(t)

SpecConcurrent == InitConcurrent /\ [][NextConcurrent]_vars

----------------------------------------------------------------------------
(* Claims about two callers on one pipeline *)

\* what caller t's call returns when it runs alone
AloneProcess(t) ==
    AudioPipeline_process(pipeline, frames[t].input, frames[t].kwargs).ret

AloneStreaming(t) == StreamOutputs(pipeline.processors, frames[t].input, <<>>)

\* a sequence is the beginning of another
IsPrefix(a, b) == Len(a) <= Len(b) /\ SubSeq(b, 1, Len(a)) = a

\* C22: of two process calls or process_streaming iterations that run
\* interleaved on one pipeline, each returns, raises or delivers what it does
\* when it runs alone on the same arguments, whatever the other call does
\* between its steps.
C22_Isolation ==
    \A t \in Callers :
        /\ (frames[t].state = "returned" /\ frames[t].kind = "process") =>
              AloneProcess(t) = Ok(frames[t].out)
        /\ (frames[t].state = "raised" /\ frames[t].kind = "process") =>
              AloneProcess(t) = Raise(frames[t].out)
        /\ (frames[t].state = "running" /\ frames[t].kind = "process_streaming") =>
              IsPrefix(frames[t].out, AloneStreaming(t).delivered)
        /\ (frames[t].state \in {"stopped", "raised"}
              /\ frames[t].kind = "process_streaming") =>
              AloneStreaming(t) = [delivered |-> frames[t].out,
                                   end |-> frames[t].state]

\* both callers ran process to its end on one two-stage pipeline with
\* different buffers, and the first returned a changed buffer
C22_Witness ==
    /\ NStages = 2
    /\ frames[1].state = "returned" /\ frames[1].kind = "process"
    /\ frames[2].state \in {"returned", "raised"} /\ frames[2].kind = "process"
    /\ frames[1].input # frames[2].input
    /\ frames[1].out # frames[1].input
    /\ cells[1].pos = 2 /\ cells[2].pos >= 1

----------------------------------------------------------------------------
(* Further claims about the direct calls *)

\* an enabled NoiseReductionProcessor was called with neither hint
HintlessReduceCall ==
    /\ libcall.fn = "NoiseReductionProcessor.process"
    /\ libcall.self.enabled
    /\ libcall.kwargs = NoKwargs

\* C23 as stated, for buffers of whole samples: an enabled
\* NoiseReductionProcessor called with neither hint returns the input buffer
\* unchanged.
C23_IdentityWithoutHints ==
    (HintlessReduceCall /\ Len(libcall.audio_bytes) % 2 = 0) =>
        libcall.ret = Ok(libcall.audio_bytes)

\* C23: an enabled NoiseReductionProcessor called with neither hint takes no
\* identity path: it does what it does for original_sample_rate =
\* self.sample_rate and original_channels = 1, that is, it denoises the buffer
\* as mono (same length for whole samples) and raises AudioProcessingError for
\* a buffer with a trailing byte.
C23_DefaultsWithoutHints ==
    HintlessReduceCall =>
        /\ libcall.ret = NoiseReductionProcessor_process(libcall.self,
                             libcall.audio_bytes, libcall.self.sample_rate, 1)
        /\ IF Len(libcall.audio_bytes) % 2 = 0
           THEN libcall.ret.ok /\ Len(libcall.ret.val) = Len(libcall.audio_bytes)
           ELSE ~libcall.ret.ok

\* a call with neither hint returned a buffer other than its input
C23_Witness ==
    /\ HintlessReduceCall
    /\ libcall.ret.ok
    /\ libcall.ret.val # libcall.audio_bytes

\* _create_soft_mask was called with a threshold that is not negative
MaskCall ==
    /\ libcall.fn = "_create_soft_mask"
    /\ libcall.threshold.num >= 0

\* C24: for every energy array and every threshold >= 0, every value of the
\* soft mask lies in [0.1, 1.0] (100..1000 thousandths), and among the
\* elements of one call (one threshold) a larger energy never has a smaller
\* mask value.
C24_MaskBoundedMonotone ==
    MaskCall =>
        /\ Len(libcall.ret) = Len(libcall.energy)
        /\ \A i \in 1..Len(libcall.ret) : 100 <= libcall.ret[i] /\ libcall.ret[i] <= 1000
        /\ \A i, j \in 1..Len(libcall.ret) :
               libcall.energy[i] <= libcall.energy[j] => libcall.ret[i] <= libcall.ret[j]

\* a mask over a positive threshold that holds the floor 0.1 for the smaller
\* energy and a value strictly between the bounds for the larger one
C24_Witness ==
    /\ MaskCall
    /\ libcall.threshold.num > 0
    /\ Len(libcall.energy) = 2
    /\ libcall.energy[1] < libcall.energy[2]
    /\ libcall.ret[1] = 100
    /\ libcall.ret[2] > 100 /\ libcall.ret[2] < 1000

\* a call of the denoiser that decodes a buffer of whole samples as mono
MonoReduceCall ==
    /\ libcall.fn = "NoiseReductionProcessor.process"
    /\ libcall.self.enabled
    /\ ChannelsUsed(libcall.kwargs) = 1
    /\ Len(libcall.audio_bytes) % 2 = 0

\* C25 as stated: for every int16 sample value, the energy np.abs gives the
\* denoiser for a sample, and the peak np.max(np.abs(...)) gives the volume
\* step, are the mathematical absolute value (32768 for -32768).
C25_AbsNeverWraps ==
    /\ MonoReduceCall =>
          \A i \in 1..SampleCount(libcall.audio_bytes) :
              AbsInt16(SamplesOf(libcall.audio_bytes)[i])
                  = Magnitude(SamplesOf(libcall.audio_bytes)[i])
    /\ (VolumeCall /\ Len(libcall.audio_bytes) > 0) =>
          MaxAbs(SamplesOf(libcall.audio_bytes)) = Ok(PeakOf(libcall.audio_bytes))

----------------------------------------------------------------------------
(* Claims about the manager's queries *)

\* the calls of register_processor that named n, as positions in call order
RegistrationsOf(n) == {i \in 1..Len(registrations) : registrations[i].name = n}

\* the processor of the latest register_processor call that named n
LastRegistered(n) ==
    registrations[CHOOSE i \in RegistrationsOf(n) : \A j \in RegistrationsOf(n) : j <= i]

\* the elements of a list
Elements(l) == {l[i] : i \in 1..Len(l)}

\* C26: after any sequence of register_processor calls, for every name n,
\* is_registered(n), n being in list_processors() and get_processor(n) not
\* failing are equivalent, they hold exactly for the names some call
\* registered, and get_processor(n) then returns the processor of the latest
\* call that named n.
C26_RegistryQueries ==
    \A n \in ManagerNames :
        /\ is_registered(registered, n) <=> n \in Elements(list_processors(registered))
        /\ is_registered(registered, n) <=> get_processor(registered, n).ok
        /\ is_registered(registered, n) <=> RegistrationsOf(n) # {}
        /\ RegistrationsOf(n) # {} =>
              get_processor(registered, n) = Ok(LastRegistered(n))

\* a name was registered twice with different processors, another name once,
\* and a third name never
C26_Witness ==
    /\ Len(registrations) = 3
    /\ \E i, j \in 1..3 :
          /\ i < j
          /\ registrations[i].name = registrations[j].name
          /\ registrations[i] # registrations[j]
    /\ Cardinality(DOMAIN registered) = 2
    /\ ~is_registered(registered, "nonexistent")

----------------------------------------------------------------------------
(* src/src/engines/base.py and src/src/engines/whisper.py:                 *)
(* transcribe_streaming.  The async generator runs when its consumer       *)
(* awaits __anext__; one step of the model is one iteration of the         *)
(* async for, the call of transcribe, or a yield.                          *)

\* the engines: WhisperEngine, a subclass that keeps the base class's
\* supports_streaming and transcribe_streaming, and a subclass that claims
\* to stream without overriding transcribe_streaming
Engines ==
    {[class |-> "WhisperEngine", supports_streaming |-> FALSE],
     [class |-> "ASREngine", supports_streaming |-> FALSE],
     [class |-> "ASREngine", supports_streaming |-> TRUE]}

\* chunks of an audio stream: an empty one, two bytes, three bytes
EngineChunks == {<<>>, <<1, 0>>, <<2, 0, 3>>}

\* what self.transcribe(audio_buffer) can do: return a text (possibly empty
\* after strip()) or raise TranscriptionError (whisper.py 56-57, 87-88)
TranscribeOutcomes ==
    {Ok("text"), Ok(""), Raise(NewError("TranscriptionError", "WhisperEngine.transcribe"))}

\* faulty variant: the buffer holds the latest chunk only
Accumulate_LastChunk(audio_buffer, chunk) == chunk

\* audio_buffer += chunk
Accumulate(audio_buffer, chunk) == audio_buffer \o chunk

\* faulty variant: transcribe is called on an empty buffer too
ShouldTranscribe_Always(audio_buffer) == TRUE

\* if audio_buffer:
ShouldTranscribe(audio_buffer) == audio_buffer # <<>>

nonEngineVars == <<stages, ctor, pipeline, outcome, calls, stream, gens, ctl, signal,
                   srcRead, delivered, streamEnd, requests, libcall, registered,
                   created, registrations, reuseVars, concVars>>

\* engine.transcribe_streaming(audio_stream): the generator object is made,
\* none of its code runs.  source_raises: the stream raises after its chunks
\* instead of ending.
TranscribeStreaming ==
    /\ eng = NoEngine
    /\ \E self \in Engines, source \in SeqsUpTo(EngineChunks, MaxChunks),
          source_raises \in BOOLEAN :
         eng' = [pc |-> "created", self |-> self, source |-> source,
                 source_raises |-> source_raises, read |-> 0, audio_buffer |-> <<>>,
                 transcribed |-> <<>>, yielded |-> <<>>, end |-> "open",
                 err |-> <<>>]
    /\ UNCHANGED nonEngineVars

\* the consumer's first __anext__: line 62, then audio_buffer = b"", or line 74
FirstRequest ==
    /\ eng.pc = "created"
    /\ eng' = IF eng.self.supports_streaming
              THEN [eng EXCEPT !.pc = "finished", !.end = "raised",
                               !.err = NewError("NotImplementedError",
                                                "ASREngine.transcribe_streaming")]
              ELSE [eng EXCEPT !.pc = "collecting"]
    /\ UNCHANGED nonEngineVars

\* one iteration of "async for chunk in audio_stream"
ReadChunk ==
    /\ eng.pc = "collecting"
    /\ eng.read < Len(eng.source)
    /\ eng' = [eng EXCEPT !.read = @ + 1,
                          !.audio_buffer = Accumulate(@, eng.source[eng.read + 1])]
    /\ UNCHANGED nonEngineVars

\* the stream ends (or raises, and the exception leaves the generator); lines
\* 68 and 71
SourceExhausted ==
    /\ eng.pc = "collecting"
    /\ eng.read = Len(eng.source)
    /\ eng' = IF eng.source_raises
              THEN [eng EXCEPT !.pc = "finished", !.end = "raised",
                               !.err = NewError("RuntimeError", "audio_stream")]
              ELSE IF ShouldTranscribe(eng.audio_buffer)
                   THEN [eng EXCEPT !.pc = "transcribing"]
                   ELSE [eng EXCEPT !.pc = "finished", !.end = "done"]
    /\ UNCHANGED nonEngineVars

\* result = self.transcribe(audio_buffer, **kwargs); yield result (base.py
\* 69-70); WhisperEngine's generator receives the result first
Transcribe ==
    /\ eng.pc = "transcribing"
    /\ \E ret \in TranscribeOutcomes :
         eng' = IF ~ret.ok
                THEN [eng EXCEPT !.pc = "finished", !.end = "raised",
                                 !.err = ret.err,
                                 !.transcribed = Append(@,
                                     [audio_bytes |-> eng.audio_buffer,
                                      read |-> eng.read, ret |-> ret])]
                ELSE [eng EXCEPT !.pc = IF eng.self.class = "WhisperEngine"
                                        THEN "relaying" ELSE "yielded",
                                 !.yielded = IF eng.self.class = "WhisperEngine"
                                             THEN @ ELSE Append(@, ret.val),
                                 !.transcribed = Append(@,
                                     [audio_bytes |-> eng.audio_buffer,
                                      read |-> eng.read, ret |-> ret])]
    /\ UNCHANGED nonEngineVars

\* WhisperEngine.transcribe_streaming: yield result (whisper.py 108-109)
Relay ==
    /\ eng.pc = "relaying"
    /\ eng' = [eng EXCEPT !.pc = "yielded",
                          !.yielded = Append(@, eng.transcribed[Len(eng.transcribed)].ret.val)]
    /\ UNCHANGED nonEngineVars

\* the consumer's next __anext__: the generator resumes after the yield and
\* returns (base.py 71)
NextRequest ==
    /\ eng.pc = "yielded"
    /\ eng' = [eng EXCEPT !.pc = "finished", !.end = "done"]
    /\ UNCHANGED nonEngineVars

\* the consumer drops the generator
DropGenerator ==
    /\ eng.pc = "finished"
    /\ eng' = NoEngine
    /\ UNCHANGED nonEngineVars

NextEngine ==
    \/ TranscribeStreaming
    \/ FirstRequest
    \/ ReadChunk
    \/ SourceExhausted
    \/ Transcribe
    \/ Relay
    \/ NextRequest
    \/ DropGenerator

SpecEngine == Init /\ [][NextEngine]_vars

----------------------------------------------------------------------------
(* Claims about transcribe_streaming *)

\* the chunks of the source stream, joined in arrival order
WholeStream == Flatten(eng.source)

\* a generator of an engine that does not support streaming exists
FallbackIteration ==
    /\ eng.pc # "none"
    /\ ~eng.self.supports_streaming

\* C27 as stated, for a source stream that ends: once the iteration is over,
\* transcribe was called exactly once and exactly one result was yielded when
\* the concatenation of the chunks is non-empty, and neither happened when it
\* is empty.
C27_OneResult ==
    (FallbackIteration /\ ~eng.source_raises /\ eng.pc = "finished") =>
        IF WholeStream # <<>>
        THEN Len(eng.transcribed) = 1 /\ Len(eng.yielded) = 1
        ELSE eng.transcribed = <<>> /\ eng.yielded = <<>>

\* C27: an engine without streaming support calls transcribe at most once,
\* only after it has read every chunk of the source, and on the concatenation
\* of the chunks in arrival order, which is then non-empty; it yields at most
\* one result, the text transcribe returned.  When the iteration is over:
\* with an empty concatenation transcribe was never called and nothing was
\* yielded; with a non-empty one transcribe was called once, and one result
\* was yielded if transcribe returned, while if it raised nothing was yielded
\* and its TranscriptionError ended the iteration.  A source that raises ends
\* the iteration with its exception before any transcribe call.
C27_OneResultIfTranscribeReturns ==
    FallbackIteration =>
        /\ Len(eng.transcribed) <= 1
        /\ \A i \in 1..Len(eng.transcribed) :
              /\ eng.transcribed[i].read = Len(eng.source)
              /\ eng.transcribed[i].audio_bytes = WholeStream
              /\ WholeStream # <<>>
              /\ ~eng.source_raises
        /\ eng.yielded = IF eng.transcribed # <<>> /\ eng.transcribed[1].ret.ok
                             /\ eng.pc # "relaying"
                          THEN <<eng.transcribed[1].ret.val>> ELSE <<>>
        /\ eng.pc = "finished" =>
              IF eng.source_raises
              THEN eng.end = "raised" /\ eng.err[1].type = "RuntimeError"
              ELSE IF WholeStream = <<>>
                   THEN eng.end = "done" /\ eng.transcribed = <<>>
                   ELSE /\ Len(eng.transcribed) = 1
                        /\ IF eng.transcribed[1].ret.ok
                           THEN eng.end = "done"
                           ELSE eng.end = "raised"
                                /\ eng.err = eng.transcribed[1].ret.err

\* WhisperEngine's iteration over two non-empty chunks ended after yielding
\* the one text transcribe returned for both chunks together
C27_Witness ==
    /\ FallbackIteration
    /\ eng.self.class = "WhisperEngine"
    /\ eng.pc = "finished" /\ eng.end = "done"
    /\ eng.source = <<(<<1, 0>>), (<<2, 0, 3>>)>>
    /\ eng.transcribed[1].audio_bytes = <<1, 0, 2, 0, 3>>
    /\ eng.yielded = <<"text">>

----------------------------------------------------------------------------
(* Further claims about process_streaming *)

\* what a stage returns for a chunk that comes with no format hints: the
\* normalizer converts neither rate nor channels and only scales the volume if
\* configured to, the denoiser decodes the chunk as mono at its own rate
HintlessStage(self, chunk) ==
    IF self.name = "audio_normalizer"
    THEN IF self.normalize_volume
         THEN NormalizerCatch(_normalize_volume(self, chunk))
         ELSE Ok(chunk)
    ELSE NoiseReductionProcessor_process(self, chunk, self.sample_rate, 1)

\* C28: every output chunk of process_streaming is what process returns for
\* the same input chunk called with no format hints; every stage was invoked
\* on the chunk alone, so that a normalizer converted neither rate nor
\* channels and a denoiser decoded the chunk as mono; and a chunk on which
\* the stream failed makes process without hints fail too.
C28_StreamingIsHintlessProcess ==
    /\ \A i \in 1..Len(delivered) :
          AudioPipeline_process(pipeline, stream[i], NoKwargs).ret = Ok(delivered[i])
    /\ \A k \in 1..NStages : \A i \in 1..Len(gens[k].put) :
          HintlessStage(StageOf(k), gens[k].got[i]) = Ok(gens[k].put[i])
    /\ streamEnd = "raised" =>
          ~AudioPipeline_process(pipeline, stream[srcRead], NoKwargs).ret.ok

\* a two-chunk stream went through a normalizer whose target is two channels
\* and an enabled denoiser; both outputs were delivered and differ from the
\* inputs in value, not in length
C28_Witness ==
    /\ streamEnd = "stopped"
    /\ NStages = 2
    /\ StageOf(1).name = "audio_normalizer" /\ StageOf(1).target_channels = 2
    /\ StageOf(2).name = "noise_reduction" /\ StageOf(2).enabled
    /\ Len(delivered) = 2
    /\ \A i \in 1..2 : /\ delivered[i] # stream[i]
                       /\ Len(delivered[i]) = Len(stream[i])

\* the stages' generators that have raised
RaisedStages == {k \in 1..NStages : gens[k].pc = "raised"}

\* C29: when a stage fails on a chunk, the outputs of all chunks before it
\* have been delivered, each as the pipeline computes it; the failure reaches
\* the consumer as an AudioProcessingError of process_streaming around the
\* stage's exception, at the request for the failing chunk's output; no chunk
\* after the failing one has been read, and the generators of the failing
\* stage and of everything above it are finished, so that nothing is
\* delivered afterwards.
C29_FailureEndsStream ==
    /\ streamEnd \in {"open", "stopped", "raised"}
    /\ (RaisedStages # {} /\ streamEnd = "open") =>
          /\ Len(delivered) = srcRead - 1
          /\ signal.kind = "error"
          /\ ctl # Consumer
    /\ streamEnd = "stopped" => RaisedStages = {} /\ Len(delivered) = Len(stream)
    /\ streamEnd = "raised" =>
          /\ RaisedStages # {}
          /\ ctl = Consumer
          /\ Len(delivered) = srcRead - 1
          /\ requests = srcRead
          /\ \A i \in 1..Len(delivered) :
                AudioPipeline_process(pipeline, stream[i], NoKwargs).ret
                    = Ok(delivered[i])
          /\ signal.kind = "error"
          /\ signal.err[Len(signal.err)]
                = [type |-> "AudioProcessingError",
                   by |-> "AudioPipeline.process_streaming"]
          /\ Len(signal.err) >= 2
          /\ gens[PipelineFrame].pc = "raised"
          /\ \A k \in 1..NStages :
                /\ Len(gens[k].got) <= srcRead
                /\ k >= Min(CHOOSE m \in RaisedStages : \A j \in RaisedStages : m <= j,
                            NStages)
                      => gens[k].pc = "raised"

\* the second stage failed on the second chunk after the first stage had
\* passed it on: the first chunk's output, changed by the stages, had been
\* delivered
C29_Witness ==
    /\ streamEnd = "raised"
    /\ NStages = 2
    /\ gens[1].pc = "yielded" /\ gens[2].pc = "raised"
    /\ srcRead = 2
    /\ Len(delivered) = 1
    /\ delivered[1] # stream[1]

----------------------------------------------------------------------------
(* Further claims about AudioPipeline.process *)

\* process returned from a pipeline of a normalizer and an enabled denoiser,
\* called with both hints, of which one differs from the normalizer's target
NormalizeThenReduceCall ==
    /\ outcome.state = "returned"
    /\ NStages = 2
    /\ pipeline.processors[1].name = "audio_normalizer"
    /\ pipeline.processors[2].name = "noise_reduction"
    /\ pipeline.processors[2].enabled
    /\ outcome.kwargs.original_sample_rate # None
    /\ outcome.kwargs.original_channels # None
    /\ \/ outcome.kwargs.original_sample_rate
            # pipeline.processors[1].target_sample_rate
       \/ outcome.kwargs.original_channels # pipeline.processors[1].target_channels

\* C30 as stated: in a pipeline of a normalizer and a denoiser called with
\* hints that differ from the normalizer's target format, the final output
\* has as many samples as the normalizer's output: the denoiser returns a
\* buffer of the size it received.
C30_DenoiserKeepsFormat ==
    NormalizeThenReduceCall => Len(outcome.bytes) = Len(calls[1].ret.val)

====
